---- MODULE Spec2Model ----
(***************************************************************************)
(* A model of the Excel_Lite recalculation pipeline: the dependency graph  *)
(* (lib/graph.ts), the evaluator (lib/evaluator.ts) and the host's edit    *)
(* path (hooks/useFormulaEngine.ts, components/SheetApp.tsx).              *)
(*                                                                         *)
(* A JavaScript Set or Map iterates in insertion order, so a Set<string>   *)
(* is modelled as a sequence without duplicates and a Map by a function.   *)
(* A cell key "r{row}c{col}" is modelled by the pair <<row, col>>.         *)
(***************************************************************************)
EXTENDS Integers, Sequences, FiniteSets, TLC

\* ------------------------------------------------------------------ bounds
\* longest dependency array handed to DependencyGraph.updateCell
MaxDeps == 2
\* longest changedKeys list handed to DependencyGraph.getRecalcOrder
MaxChanged == 2
\* number of edits committed in one run of the sheet
MaxEdits == 4
\* longest argument list of a function call handed to the evaluator
MaxArgs == 2
\* longest text among the short texts handed to the tokenizer
MaxLen == 3
\* most tokens the tokenizer's array holds
MaxTokens == 10

\* the handler calls of one history run
MaxHistory == 4

\* the state changes of one mounted component
MaxChanges == 3

\* the events of one editing run
MaxEvents == 6

\* the rows and the first columns of the addresses the A1 functions are run on
MaxRow == 100

MaxCol == 53

\* the rows of the dependents recalculateDependents is run on
MaxRecalcRow == 2

\* COLS, the columns of the grid
COLS == 50

VARIABLES nodes, last, cells, edited, edits, evaluation, parsing, history, storage,
          editing

vars == <<nodes, last, cells, edited, edits, evaluation, parsing, history, storage,
          editing>>

\* ------------------------------------------------------- keys and Set<string>
cellKey(addr) == <<addr.row, addr.col>>

\* the cells the model edits: A1, B1 and C1
Cells == { [row |-> 0, col |-> c] : c \in {0, 1, 2} }

Keys == { cellKey(addr) : addr \in Cells }

Range(s) == { s[i] : i \in 1 .. Len(s) }

\* Set.prototype.has
SetHas(s, x) == x \in Range(s)

\* Set.prototype.add: appends unless present
SetAdd(s, x) == IF SetHas(s, x) THEN s ELSE Append(s, x)

\* Set.prototype.delete
SetDelete(s, x) == SelectSeq(s, LAMBDA y : y /= x)

\* new Set(array): first occurrences, in array order
RECURSIVE NewSet(_)
NewSet(arr) ==
  IF arr = <<>> THEN <<>>
  ELSE LET init == NewSet(SubSeq(arr, 1, Len(arr) - 1))
       IN  SetAdd(init, arr[Len(arr)])

\* arrays over S of length at most n
SeqsUpTo(S, n) == UNION { [1 .. k -> S] : k \in 0 .. n }

\* the ordered sets (duplicate-free sequences) over S
OrderedSets(S) == { s \in SeqsUpTo(S, Cardinality(S)) : Len(s) = Cardinality(Range(s)) }

\* Map.prototype.set
MapSet(m, k, v) == [x \in (DOMAIN m) \cup {k} |-> IF x = k THEN v ELSE m[x]]

\* Map.prototype.delete
MapDelete(m, k) == [x \in (DOMAIN m) \ {k} |-> m[x]]

EmptyMap == [x \in {} |-> 0]

\* ------------------------------------------------------------ DependencyGraph
GraphNode(deps, dpts) == [dependencies |-> deps, dependents |-> dpts]

\* for (dep of deps) nodes.get(dep)?.dependents.delete(key)
RECURSIVE DetachFromDependencies(_, _, _)
DetachFromDependencies(g, key, deps) ==
  IF deps = <<>> THEN g
  ELSE LET dep == Head(deps)
           g1  == IF dep \in DOMAIN g
                  THEN MapSet(g, dep, GraphNode(g[dep].dependencies,
                                                SetDelete(g[dep].dependents, key)))
                  ELSE g
       IN  DetachFromDependencies(g1, key, Tail(deps))

\* for (dep of dependencies) { create the placeholder; depNode.dependents.add(key) }
RECURSIVE AttachToDependencies(_, _, _)
AttachToDependencies(g, key, deps) ==
  IF deps = <<>> THEN g
  ELSE LET dep     == Head(deps)
           depNode == IF dep \in DOMAIN g THEN g[dep] ELSE GraphNode(<<>>, <<>>)
           g1      == MapSet(g, dep, GraphNode(depNode.dependencies,
                                               SetAdd(depNode.dependents, key)))
       IN  AttachToDependencies(g1, key, Tail(deps))

\* updateCell that forgets the "Remove old dependencies" loop
GraphUpdateCell_NoDetach(g, key, dependencies) ==
  LET node == GraphNode(NewSet(dependencies),
                        IF key \in DOMAIN g THEN g[key].dependents ELSE <<>>)
  IN  AttachToDependencies(MapSet(g, key, node), key, dependencies)

\* DependencyGraph.updateCell(key, dependencies)
GraphUpdateCell(g, key, dependencies) ==
  LET hasOld == key \in DOMAIN g
      g1     == IF hasOld THEN DetachFromDependencies(g, key, g[key].dependencies) ELSE g
      node   == GraphNode(NewSet(dependencies),
                          IF hasOld THEN g1[key].dependents ELSE <<>>)
      g2     == MapSet(g1, key, node)
  IN  AttachToDependencies(g2, key, dependencies)

\* for (dependent of node.dependents) nodes.get(dependent)?.dependencies.delete(key)
RECURSIVE DetachFromDependents(_, _, _)
DetachFromDependents(g, key, dpts) ==
  IF dpts = <<>> THEN g
  ELSE LET d  == Head(dpts)
           g1 == IF d \in DOMAIN g
                 THEN MapSet(g, d, GraphNode(SetDelete(g[d].dependencies, key),
                                             g[d].dependents))
                 ELSE g
       IN  DetachFromDependents(g1, key, Tail(dpts))

\* removeCell that forgets the loop over node.dependents
GraphRemoveCell_KeepsDependencies(g, key) ==
  IF key \notin DOMAIN g THEN g
  ELSE MapDelete(DetachFromDependencies(g, key, g[key].dependencies), key)

\* removeCell that forgets the loop over node.dependencies
GraphRemoveCell_KeepsDependents(g, key) ==
  IF key \notin DOMAIN g THEN g
  ELSE MapDelete(DetachFromDependents(g, key, g[key].dependents), key)

\* DependencyGraph.removeCell(key)
GraphRemoveCell(g, key) ==
  IF key \notin DOMAIN g THEN g
  ELSE LET g1 == DetachFromDependencies(g, key, g[key].dependencies)
           g2 == DetachFromDependents(g1, key, g[key].dependents)
       IN  MapDelete(g2, key)

\* DependencyGraph.clear()
GraphClear(g) == EmptyMap

\* the for-loop without queue.push: direct dependents only
RECURSIVE AffectedPush_NoQueue(_, _, _)
AffectedPush_NoQueue(dpts, affected, queue) ==
  IF dpts = <<>> THEN [affected |-> affected, queue |-> queue]
  ELSE AffectedPush_NoQueue(Tail(dpts), SetAdd(affected, Head(dpts)), queue)

\* the for-loop of getAffectedCells: affected.add(dependent); queue.push(dependent)
RECURSIVE AffectedPush(_, _, _)
AffectedPush(dpts, affected, queue) ==
  IF dpts = <<>> THEN [affected |-> affected, queue |-> queue]
  ELSE AffectedPush(Tail(dpts), SetAdd(affected, Head(dpts)), Append(queue, Head(dpts)))

\* the while-loop of getAffectedCells
RECURSIVE AffectedLoop(_, _, _, _)
AffectedLoop(g, queue, visited, affected) ==
  IF queue = <<>> THEN affected
  ELSE LET current == Head(queue)
           rest    == Tail(queue)
       IN  IF current \in visited THEN AffectedLoop(g, rest, visited, affected)
           ELSE IF current \notin DOMAIN g
                THEN AffectedLoop(g, rest, visited \cup {current}, affected)
                ELSE LET r == AffectedPush(g[current].dependents, affected, rest)
                     IN  AffectedLoop(g, r.queue, visited \cup {current}, r.affected)

\* DependencyGraph.getAffectedCells(key): the Set it returns, in insertion order
getAffectedCells(g, key) == AffectedLoop(g, <<key>>, {}, <<>>)

\* the closure dfs of hasCycle; the result carries the two sets it mutates
RECURSIVE HasCycleDfs(_, _, _, _)
RECURSIVE HasCycleDeps(_, _, _, _, _)
\* the dependency loop that takes any visited dependency for a back-edge
HasCycleDeps_AnyVisited(g, current, deps, visited, recursionStack) ==
  IF deps = <<>>
  THEN [found |-> FALSE, visited |-> visited,
        recursionStack |-> recursionStack \ {current}]
  ELSE LET dep == Head(deps)
       IN  IF dep \notin visited
           THEN LET r == HasCycleDfs(g, dep, visited, recursionStack)
                IN  IF r.found THEN r
                    ELSE HasCycleDeps(g, current, Tail(deps), r.visited, r.recursionStack)
           ELSE [found |-> TRUE, visited |-> visited, recursionStack |-> recursionStack]

HasCycleDeps(g, current, deps, visited, recursionStack) ==
  IF deps = <<>>
  THEN [found |-> FALSE, visited |-> visited,
        recursionStack |-> recursionStack \ {current}]
  ELSE LET dep == Head(deps)
       IN  IF dep \notin visited
           THEN LET r == HasCycleDfs(g, dep, visited, recursionStack)
                IN  IF r.found THEN r
                    ELSE HasCycleDeps(g, current, Tail(deps), r.visited, r.recursionStack)
           ELSE IF dep \in recursionStack
                THEN [found |-> TRUE, visited |-> visited,
                      recursionStack |-> recursionStack]
                ELSE HasCycleDeps(g, current, Tail(deps), visited, recursionStack)

HasCycleDfs(g, current, visited, recursionStack) ==
  LET v  == visited \cup {current}
      st == recursionStack \cup {current}
  IN  IF current \in DOMAIN g
      THEN HasCycleDeps(g, current, g[current].dependencies, v, st)
      ELSE [found |-> FALSE, visited |-> v, recursionStack |-> st \ {current}]

\* DependencyGraph.hasCycle(key)
hasCycle(g, key) == HasCycleDfs(g, key, {}, {}).found

\* the "Initialize in-degrees" loop of getTopologicalOrder
RECURSIVE TopoInit(_, _, _, _, _)
\* the in-degree loop without the keys.has(dep) test
TopoInit_AllDependencies(g, keys, todo, inDegree, queue) ==
  IF todo = <<>> THEN [inDegree |-> inDegree, queue |-> queue]
  ELSE LET key == Head(todo)
       IN  IF key \notin DOMAIN g THEN TopoInit(g, keys, Tail(todo), inDegree, queue)
           ELSE LET degree == Len(g[key].dependencies)
                IN  TopoInit(g, keys, Tail(todo), MapSet(inDegree, key, degree),
                             IF degree = 0 THEN Append(queue, key) ELSE queue)

TopoInit(g, keys, todo, inDegree, queue) ==
  IF todo = <<>> THEN [inDegree |-> inDegree, queue |-> queue]
  ELSE LET key == Head(todo)
       IN  IF key \notin DOMAIN g THEN TopoInit(g, keys, Tail(todo), inDegree, queue)
           ELSE LET degree == Cardinality({ dep \in Range(g[key].dependencies) :
                                            SetHas(keys, dep) })
                IN  TopoInit(g, keys, Tail(todo), MapSet(inDegree, key, degree),
                             IF degree = 0 THEN Append(queue, key) ELSE queue)

\* the loop over node.dependents inside Kahn's algorithm; a dependent without an
\* in-degree entry would read NaN, which never becomes 0: the entry stays absent
RECURSIVE TopoRelax(_, _, _, _)
TopoRelax(keys, dpts, inDegree, queue) ==
  IF dpts = <<>> THEN [inDegree |-> inDegree, queue |-> queue]
  ELSE LET dependent == Head(dpts)
       IN  IF ~SetHas(keys, dependent) \/ dependent \notin DOMAIN inDegree
           THEN TopoRelax(keys, Tail(dpts), inDegree, queue)
           ELSE LET degree == inDegree[dependent] - 1
                IN  TopoRelax(keys, Tail(dpts), MapSet(inDegree, dependent, degree),
                              IF degree = 0 THEN Append(queue, dependent) ELSE queue)

\* the while-loop of Kahn's algorithm
RECURSIVE TopoLoop(_, _, _, _, _)
TopoLoop(g, keys, queue, inDegree, result) ==
  IF queue = <<>> THEN result
  ELSE LET current == Head(queue)
           res     == Append(result, current)
       IN  IF current \notin DOMAIN g
           THEN TopoLoop(g, keys, Tail(queue), inDegree, res)
           ELSE LET r == TopoRelax(keys, g[current].dependents, inDegree, Tail(queue))
                IN  TopoLoop(g, keys, r.queue, r.inDegree, res)

\* DependencyGraph.getTopologicalOrder(keys): isNull stands for the null result
getTopologicalOrder(g, keys) ==
  LET init   == TopoInit(g, keys, keys, EmptyMap, <<>>)
      result == TopoLoop(g, keys, init.queue, init.inDegree, <<>>)
  IN  IF Len(result) /= Len(keys)
      THEN [isNull |-> TRUE, order |-> <<>>]
      ELSE [isNull |-> FALSE, order |-> result]

\* the loops of getRecalcOrder that fill the Set affected
RECURSIVE SetAddAll(_, _)
SetAddAll(s, xs) == IF xs = <<>> THEN s ELSE SetAddAll(SetAdd(s, Head(xs)), Tail(xs))

RECURSIVE RecalcAffected(_, _, _)
RecalcAffected(g, changedKeys, affected) ==
  IF changedKeys = <<>> THEN affected
  ELSE RecalcAffected(g, Tail(changedKeys),
                      SetAddAll(affected, getAffectedCells(g, Head(changedKeys))))

\* getRecalcOrder without the "|| Array.from(affected)" fallback
getRecalcOrder_NoFallback(g, changedKeys) ==
  getTopologicalOrder(g, RecalcAffected(g, changedKeys, <<>>)).order

\* DependencyGraph.getRecalcOrder(changedKeys)
getRecalcOrder(g, changedKeys) ==
  LET affected == RecalcAffected(g, changedKeys, <<>>)
      order    == getTopologicalOrder(g, affected)
  IN  IF order.isNull THEN affected ELSE order.order

\* ------------------------------------------------------------ values and cells
\* number | string | undefined, and the array a range evaluates to. A number
\* is the fraction n/d in lowest terms, d > 0; a is the content of an array.
\* Rendering(v) is the string v.toString() of the number v
Num(n) == [t |-> "number", n |-> n, d |-> 1, s |-> "", a |-> <<>>]

Str(s) == [t |-> "string", n |-> 0, d |-> 1, s |-> s, a |-> <<>>]

Rendering(v) == [t |-> "string", n |-> v.n, d |-> v.d, s |-> "toString", a |-> <<>>]

Undefined == [t |-> "undefined", n |-> 0, d |-> 1, s |-> "", a |-> <<>>]

Arr(values) == [t |-> "array", n |-> 0, d |-> 1, s |-> "", a |-> values]

\* the arithmetic of numbers
Abs(i) == IF i < 0 THEN -i ELSE i

RECURSIVE Gcd(_, _)
Gcd(i, j) == IF j = 0 THEN i ELSE Gcd(j, i % j)

\* the number n/d, d /= 0
Ratio(n, d) ==
  [t |-> "number",
   n |-> (IF d < 0 THEN -n ELSE n) \div Gcd(Abs(n), Abs(d)),
   d |-> Abs(d) \div Gcd(Abs(n), Abs(d)),
   s |-> "", a |-> <<>>]

Plus(x, y) == Ratio(x.n * y.d + y.n * x.d, x.d * y.d)

Minus(x, y) == Ratio(x.n * y.d - y.n * x.d, x.d * y.d)

Times(x, y) == Ratio(x.n * y.n, x.d * y.d)

Over(x, y) == Ratio(x.n * y.d, x.d * y.n)

Less(x, y) == x.n * y.d < y.n * x.d

\* a Cell; an absent value is Undefined, an absent raw or error is ""
Cell(kind, display, value, raw, error) ==
  [kind |-> kind, display |-> display, value |-> value, raw |-> raw, error |-> error]

\* ----------------------------------------------- the texts the model types in
\* the reference texts the formulas use, with a1ToAddress and the inverse that
\* recalculateDependents builds from a key
RefTexts == {"A1", "B1", "C1"}

\* the reference texts the evaluator meets beside them: a second row, the
\* column after Z, and a text with row 0, which is no address
EvalRefTexts == RefTexts \cup {"A2", "B2", "AA1", "A0"}

\* a1ToAddress returns null
NullAddress == [row |-> -1, col |-> -1]

\* a1ToAddress on the reference texts of the model
a1ToAddress(a1) ==
  CASE a1 = "A1"  -> [row |-> 0, col |-> 0]
    [] a1 = "B1"  -> [row |-> 0, col |-> 1]
    [] a1 = "C1"  -> [row |-> 0, col |-> 2]
    [] a1 = "A2"  -> [row |-> 1, col |-> 0]
    [] a1 = "B2"  -> [row |-> 1, col |-> 1]
    [] a1 = "AA1" -> [row |-> 0, col |-> 26]
    [] OTHER      -> NullAddress

\* String.fromCharCode(65 + i), i in 0 .. 25
Letters ==
  <<"A", "B", "C", "D", "E", "F", "G", "H", "I", "J", "K", "L", "M",
    "N", "O", "P", "Q", "R", "S", "T", "U", "V", "W", "X", "Y", "Z">>

\* Evaluator.addressToRef
addressToRef(addr) == Letters[(addr.col % 26) + 1] \o ToString(addr.row + 1)

\* key.replace(/^r(\d+)c(\d+)$/, ...): String.fromCharCode(65 + col) + (row + 1)
KeyToA1(key) ==
  CASE key = <<0, 0>> -> "A1"
    [] key = <<0, 1>> -> "B1"
    [] key = <<0, 2>> -> "C1"

\* node.value is a number in a Number node and a string in a String node
NumberNode(n) == [type |-> "Number", value |-> Num(n)]

CellRefNode(ref) == [type |-> "CellRef", cellRef |-> ref]

StringNode(str) == [type |-> "String", value |-> Str(str)]

RangeRefNode(start, end) == [type |-> "RangeRef", start |-> start, end |-> end]

FunctionCallNode(name, args) == [type |-> "FunctionCall", name |-> name, args |-> args]

BinaryOpNode(op, left, right) ==
  [type |-> "BinaryOp", operator |-> op, left |-> left, right |-> right]

\* the raw texts a user commits; none has leading or trailing blanks
FormulaTexts == {"=A1+1", "=B1+1", "=C1+1", "=A1+B1", "=1+"}

NumberTexts == {"1", "2"}

RawInputs == {""} \cup NumberTexts \cup {"abc"} \cup FormulaTexts

\* parseFloat on the texts of the model: the number of the longest numeric
\* prefix; nan stands for NaN
parseFloat(text) ==
  CASE text = "1"  -> [nan |-> FALSE, n |-> 1]
    [] text = "2"  -> [nan |-> FALSE, n |-> 2]
    [] text = "3x" -> [nan |-> FALSE, n |-> 3]
    [] OTHER       -> [nan |-> TRUE, n |-> 0]

\* parseFormula on the formula texts of the model: ok = FALSE is a ParseError
\* ("=1+" ends where parsePrimary needs an operand)
parseFormula(formula) ==
  CASE formula = "=A1+1"  -> [ok |-> TRUE, ast |-> BinaryOpNode("+", CellRefNode("A1"), NumberNode(1))]
    [] formula = "=B1+1"  -> [ok |-> TRUE, ast |-> BinaryOpNode("+", CellRefNode("B1"), NumberNode(1))]
    [] formula = "=C1+1"  -> [ok |-> TRUE, ast |-> BinaryOpNode("+", CellRefNode("C1"), NumberNode(1))]
    [] formula = "=A1+B1" -> [ok |-> TRUE, ast |-> BinaryOpNode("+", CellRefNode("A1"), CellRefNode("B1"))]
    [] OTHER              -> [ok |-> FALSE, ast |-> NumberNode(0)]

\* ------------------------------------------------------------------ evaluator
\* useFormulaEngine.getCellValue over the cells map the hook was rendered with
getCellValue(cs, ref) ==
  LET key == cellKey(a1ToAddress(ref))
  IN  IF key \notin DOMAIN cs THEN Undefined
      ELSE LET cell == cs[key]
           IN  CASE cell.kind = "empty" -> Undefined
                 [] cell.kind = "error" -> Undefined
                 [] cell.kind = "number" /\ cell.value /= Undefined -> cell.value
                 [] cell.kind = "text" /\ cell.raw /= "" -> Str(cell.raw)
                 [] cell.kind = "formula" /\ cell.value /= Undefined -> cell.value
                 [] OTHER -> Undefined

\* the outcome of Evaluator.evaluate: a value, or the message of a thrown
\* EvalError, with the usedRefs set as the call leaves it
Returned(value, usedRefs) == [thrown |-> "", value |-> value, usedRefs |-> usedRefs]

Thrown(message, usedRefs) == [thrown |-> message, value |-> Undefined, usedRefs |-> usedRefs]

\* the CellGetter handed to the evaluator, a map from reference texts to
\* values: an unknown reference is undefined
Lookup(get, ref) == IF ref \in DOMAIN get THEN get[ref] ELSE Undefined

\* the getCellValue closure of the render whose cells map is cs
CellGetter(cs) == [ref \in RefTexts |-> getCellValue(cs, ref)]

\* Evaluator.toNumber: nan stands for the thrown #VALUE!
toNumber(value) ==
  CASE value.t = "number" -> [nan |-> FALSE, num |-> value]
    [] value.t = "string" -> [nan |-> parseFloat(value.s).nan, num |-> Num(parseFloat(value.s).n)]
    [] OTHER -> [nan |-> TRUE, num |-> Num(0)]

\* tryToNumber that takes a text that is no number for 0
tryToNumber_ZeroForText(value) ==
  CASE value.t = "number" -> [null |-> FALSE, num |-> value]
    [] value.t = "string" -> [null |-> FALSE, num |-> Num(parseFloat(value.s).n)]
    [] OTHER -> [null |-> TRUE, num |-> Num(0)]

\* Evaluator.tryToNumber: null stands for the null result
tryToNumber(value) ==
  CASE value.t = "number" -> [null |-> FALSE, num |-> value]
    [] value.t = "string" -> [null |-> parseFloat(value.s).nan, num |-> Num(parseFloat(value.s).n)]
    [] OTHER -> [null |-> TRUE, num |-> Num(0)]

\* Math.pow(x, y) for an exponent y that is a natural number
RECURSIVE Power(_, _)
Power(x, y) == IF y.n <= 0 \/ y.d /= 1 THEN Num(1) ELSE Times(x, Power(x, Num(y.n - 1)))

\* the switch on node.operator without the test of the divisor: a division
\* by zero returns 0
BinaryOpApply_NoZeroTest(operator, left, right) ==
  IF toNumber(left.value).nan \/ toNumber(right.value).nan
  THEN Thrown("#VALUE!", right.usedRefs)
  ELSE CASE operator = "+" ->
              Returned(Plus(toNumber(left.value).num, toNumber(right.value).num), right.usedRefs)
         [] operator = "-" ->
              Returned(Minus(toNumber(left.value).num, toNumber(right.value).num), right.usedRefs)
         [] operator = "*" ->
              Returned(Times(toNumber(left.value).num, toNumber(right.value).num), right.usedRefs)
         [] operator = "/" ->
              IF toNumber(right.value).num = Num(0)
              THEN Returned(Num(0), right.usedRefs)
              ELSE Returned(Over(toNumber(left.value).num, toNumber(right.value).num),
                            right.usedRefs)
         [] OTHER ->
              Thrown("Unknown operator: " \o operator, right.usedRefs)

\* Evaluator.evaluate, case 'BinaryOp': the switch on node.operator, applied to
\* the values of the two operands
BinaryOpApply(operator, left, right) ==
  IF toNumber(left.value).nan \/ toNumber(right.value).nan
  THEN Thrown("#VALUE!", right.usedRefs)
  ELSE CASE operator = "+" ->
              Returned(Plus(toNumber(left.value).num, toNumber(right.value).num), right.usedRefs)
         [] operator = "-" ->
              Returned(Minus(toNumber(left.value).num, toNumber(right.value).num), right.usedRefs)
         [] operator = "*" ->
              Returned(Times(toNumber(left.value).num, toNumber(right.value).num), right.usedRefs)
         [] operator = "/" ->
              IF toNumber(right.value).num = Num(0)
              THEN Thrown("#DIV/0!", right.usedRefs)
              ELSE Returned(Over(toNumber(left.value).num, toNumber(right.value).num),
                            right.usedRefs)
         [] operator = "^" ->
              Returned(Power(toNumber(left.value).num, toNumber(right.value).num), right.usedRefs)
         [] OTHER ->
              Thrown("Unknown operator: " \o operator, right.usedRefs)

\* a throwing right operand ends the evaluation
BinaryOpEnd(operator, left, right) ==
  IF right.thrown /= "" THEN right ELSE BinaryOpApply(operator, left, right)

\* the two loops of case 'RangeRef': every cell of the rectangle, row by row,
\* is added to usedRefs and its value, when present, pushed
RECURSIVE RangeLoop(_, _, _, _, _, _, _, _)
RangeLoop(get, row, col, minCol, maxRow, maxCol, values, usedRefs) ==
  IF row > maxRow THEN Returned(Arr(values), usedRefs)
  ELSE IF col > maxCol
       THEN RangeLoop(get, row + 1, minCol, minCol, maxRow, maxCol, values, usedRefs)
       ELSE RangeLoop(get, row, col + 1, minCol, maxRow, maxCol,
                      IF Lookup(get, addressToRef([col |-> col, row |-> row])) /= Undefined
                      THEN Append(values, Lookup(get, addressToRef([col |-> col, row |-> row])))
                      ELSE values,
                      SetAdd(usedRefs, addressToRef([col |-> col, row |-> row])))

Min(i, j) == IF i <= j THEN i ELSE j

Max(i, j) == IF i >= j THEN i ELSE j

\* case 'RangeRef' once both endpoints are in usedRefs
RangeValues(get, startAddr, endAddr, usedRefs) ==
  IF startAddr = NullAddress \/ endAddr = NullAddress
  THEN Thrown("#REF!", usedRefs)
  ELSE RangeLoop(get, Min(startAddr.row, endAddr.row), Min(startAddr.col, endAddr.col),
                 Min(startAddr.col, endAddr.col), Max(startAddr.row, endAddr.row),
                 Max(startAddr.col, endAddr.col), <<>>, usedRefs)

\* the inner loop of collectNumericValues over a range result
RECURSIVE CollectRange(_, _)
CollectRange(vals, values) ==
  IF vals = <<>> THEN values
  ELSE CollectRange(Tail(vals),
                    IF tryToNumber(Head(vals)).null THEN values
                    ELSE Append(values, tryToNumber(Head(vals)).num))

\* the body of the loop of collectNumericValues for one evaluated argument
CollectResult(result, values) ==
  IF result.t = "array" THEN CollectRange(result.a, values)
  ELSE IF tryToNumber(result).null THEN values
       ELSE Append(values, tryToNumber(result).num)

\* values.reduce((sum, val) => sum + val, 0)
RECURSIVE SumOf(_)
SumOf(values) == IF values = <<>> THEN Num(0) ELSE Plus(Head(values), SumOf(Tail(values)))

\* Math.min(...values) and Math.max(...values) of a list that is not empty
RECURSIVE MathMin(_)
MathMin(values) ==
  IF Len(values) = 1 THEN Head(values)
  ELSE IF Less(Head(values), MathMin(Tail(values))) THEN Head(values)
       ELSE MathMin(Tail(values))

RECURSIVE MathMax(_)
MathMax(values) ==
  IF Len(values) = 1 THEN Head(values)
  ELSE IF Less(MathMax(Tail(values)), Head(values)) THEN Head(values)
       ELSE MathMax(Tail(values))

\* the switch of evaluateFunction whose default returns 0
FunctionSwitch_NoDefault(name, c) ==
  IF c.thrown /= "" THEN Thrown(c.thrown, c.usedRefs)
  ELSE CASE name = "SUM" -> Returned(SumOf(c.values), c.usedRefs)
         [] name = "COUNT" -> Returned(Num(Len(c.values)), c.usedRefs)
         [] OTHER -> Returned(Num(0), c.usedRefs)

\* the switch of evaluateFunction on the collected values c
FunctionSwitch(name, c) ==
  IF c.thrown /= "" THEN Thrown(c.thrown, c.usedRefs)
  ELSE CASE name = "SUM" -> Returned(SumOf(c.values), c.usedRefs)
         [] name \in {"AVG", "AVERAGE"} ->
              Returned(IF Len(c.values) = 0 THEN Num(0)
                       ELSE Over(SumOf(c.values), Num(Len(c.values))), c.usedRefs)
         [] name = "MIN" ->
              Returned(IF Len(c.values) = 0 THEN Num(0) ELSE MathMin(c.values), c.usedRefs)
         [] name = "MAX" ->
              Returned(IF Len(c.values) = 0 THEN Num(0) ELSE MathMax(c.values), c.usedRefs)
         [] name = "COUNT" -> Returned(Num(Len(c.values)), c.usedRefs)
         [] OTHER -> Thrown("Unknown function: " \o name, c.usedRefs)

\* case 'CellRef' that returns what the getter returns
CellValue_AsIs(get, ref) == Lookup(get, ref)

\* case 'CellRef': if (value === undefined) return 0; return value
CellValue(get, ref) ==
  IF Lookup(get, ref) = Undefined THEN Num(0) ELSE Lookup(get, ref)

\* Evaluator.evaluate(node) with the CellGetter get; usedRefs is the Set of the
\* evaluator when the call starts. An operand or argument that throws ends the
\* evaluation
RECURSIVE evaluate(_, _, _)
RECURSIVE BinaryOpRight(_, _, _)
RECURSIVE collectNumericValues(_, _, _, _)
RECURSIVE CollectNext(_, _, _, _)
evaluate(node, get, usedRefs) ==
  CASE node.type = "Number" -> Returned(node.value, usedRefs)
    [] node.type = "String" -> Returned(node.value, usedRefs)
    [] node.type = "CellRef" ->
         Returned(CellValue(get, node.cellRef), SetAdd(usedRefs, node.cellRef))
    [] node.type = "RangeRef" ->
         RangeValues(get, a1ToAddress(node.start), a1ToAddress(node.end),
                     SetAdd(SetAdd(usedRefs, node.start), node.end))
    [] node.type = "BinaryOp" ->
         BinaryOpRight(node, get, evaluate(node.left, get, usedRefs))
    [] node.type = "FunctionCall" ->
         FunctionSwitch(node.name, collectNumericValues(node.args, get, <<>>, usedRefs))
    [] OTHER -> Thrown("Unknown node type: " \o node.type, usedRefs)

\* const right = this.evaluate(node.right, usedRefs), after the left operand
BinaryOpRight(node, get, left) ==
  IF left.thrown /= "" THEN left
  ELSE BinaryOpEnd(node.operator, left, evaluate(node.right, get, left.usedRefs))

\* Evaluator.collectNumericValues(args): the loop over the arguments that are
\* left, with the values collected so far
collectNumericValues(args, get, values, usedRefs) ==
  IF args = <<>> THEN [thrown |-> "", values |-> values, usedRefs |-> usedRefs]
  ELSE CollectNext(args, get, values, evaluate(Head(args), get, usedRefs))

\* the argument evaluated to r: its numbers are collected and the loop goes on
CollectNext(args, get, values, r) ==
  IF r.thrown /= "" THEN [thrown |-> r.thrown, values |-> values, usedRefs |-> r.usedRefs]
  ELSE collectNumericValues(Tail(args), get, CollectResult(r.value, values), r.usedRefs)

\* the result shaping that takes whatever is not a number for a string
EvalResultOf_NoValueError(r) ==
  IF r.thrown /= ""
  THEN [value |-> Undefined, text |-> Undefined, error |-> r.thrown, usedRefs |-> r.usedRefs]
  ELSE IF r.value.t = "number"
       THEN [value |-> r.value, text |-> Rendering(r.value), error |-> "",
             usedRefs |-> r.usedRefs]
       ELSE [value |-> Undefined, text |-> r.value, error |-> "", usedRefs |-> r.usedRefs]

\* the result shaping that returns no usedRefs with an error
EvalResultOf_NoRefsOnError(r) ==
  IF r.thrown /= ""
  THEN [value |-> Undefined, text |-> Undefined, error |-> r.thrown, usedRefs |-> <<>>]
  ELSE IF r.value.t = "number"
       THEN [value |-> r.value, text |-> Rendering(r.value), error |-> "",
             usedRefs |-> r.usedRefs]
       ELSE IF r.value.t = "string"
            THEN [value |-> Undefined, text |-> r.value, error |-> "",
                  usedRefs |-> r.usedRefs]
            ELSE [value |-> Undefined, text |-> Undefined, error |-> "#VALUE!",
                  usedRefs |-> r.usedRefs]

\* the EvalResult evaluateFormula builds from the outcome r of evaluate
EvalResultOf(r) ==
  IF r.thrown /= ""
  THEN [value |-> Undefined, text |-> Undefined, error |-> r.thrown, usedRefs |-> r.usedRefs]
  ELSE IF r.value.t = "number"
       THEN [value |-> r.value, text |-> Rendering(r.value), error |-> "",
             usedRefs |-> r.usedRefs]
       ELSE IF r.value.t = "string"
            THEN [value |-> Undefined, text |-> r.value, error |-> "",
                  usedRefs |-> r.usedRefs]
            ELSE [value |-> Undefined, text |-> Undefined, error |-> "#VALUE!",
                  usedRefs |-> r.usedRefs]

\* evaluateFormula(ast, getCellValue): an EvalResult; an absent value, text or
\* error is Undefined or ""
evaluateFormula(ast, get) == EvalResultOf(evaluate(ast, get, <<>>))

\* last names the call that produced the current state
NoCall == "none"

\* edited holds the key of the cell the host edited last
NoEdit == <<>>

\* evaluation holds the AST, the CellGetter and the result of the call of
\* evaluateFormula under study
NoEvaluation == <<>>

\* parsing holds the formula text under study and what the tokenizer, the
\* parser and the Reference Adjuster made of it
NoParsing == <<>>

\* history holds columnWidths and the undo and redo stacks of the sheet
NoHistory == <<>>

\* storage holds the pending save and what localStorage holds
NoStorage == <<>>

\* editing holds state.editing: the cell being edited and the draft, or
\* undefined
NoEditing == <<>>

\* ----------------------------------------------------------- useFormulaEngine
\* result.usedRefs.map(ref => cellKey(a1ToAddress(ref.replace(/\$/g, ''))));
\* the reference texts of the model carry no $
RECURSIVE UsedKeys(_)
UsedKeys(usedRefs) ==
  IF usedRefs = <<>> THEN <<>>
  ELSE <<cellKey(a1ToAddress(Head(usedRefs)))>> \o UsedKeys(Tail(usedRefs))

\* the cell of the formula branch: #CYCLE! when graph.hasCycle(key) on the
\* updated graph g1, else the error or the value of result
FormulaCell(trimmed, key, result, g1) ==
  [cell  |-> IF hasCycle(g1, key)
             THEN Cell("error", Str("#CYCLE!"), Undefined, trimmed, "#CYCLE!")
             ELSE IF result.error /= ""
                  THEN Cell("error", Str(result.error), Undefined, trimmed, result.error)
                  ELSE Cell("formula", result.text, result.value, trimmed, ""),
   nodes |-> g1]

\* graph.updateCell(key, usedKeys) with the references result used
FormulaEdges(trimmed, key, result, g) ==
  FormulaCell(trimmed, key, result, GraphUpdateCell(g, key, UsedKeys(result.usedRefs)))

\* the formula branch of processCell once the text has parsed
ProcessFormula(trimmed, ast, key, cs, g) ==
  FormulaEdges(trimmed, key, evaluateFormula(ast, CellGetter(cs)), g)

\* useFormulaEngine.processCell(raw, addr) against the cells map cs of the render
\* and the graph g, which it updates in place
processCell(raw, addr, cs, g) ==
  LET trimmed == raw
  IN  IF trimmed = ""
      THEN [cell |-> Cell("empty", Str(""), Undefined, "", ""), nodes |-> g]
      ELSE IF trimmed \in FormulaTexts
           THEN LET parsed == parseFormula(trimmed)
                IN  IF parsed.ok
                    THEN ProcessFormula(trimmed, parsed.ast, cellKey(addr), cs, g)
                    ELSE [cell  |-> Cell("error", Str("#ERROR!"), Undefined, trimmed,
                                         "Unexpected token: "),
                          nodes |-> g]
           ELSE LET num == parseFloat(trimmed)
                IN  IF ~num.nan /\ trimmed \in NumberTexts
                    THEN [cell  |-> Cell("number", Str(trimmed), Num(num.n), trimmed, ""),
                          nodes |-> g]
                    ELSE [cell  |-> Cell("text", Str(trimmed), Undefined, trimmed, ""),
                          nodes |-> g]

\* the loop of recalculateDependents over recalcKeys
RECURSIVE RecalcLoop(_, _, _, _)
RECURSIVE RecalcSet(_, _, _, _, _)
RecalcLoop(recalcKeys, cs, g, updatedCells) ==
  IF recalcKeys = <<>> THEN [updatedCells |-> updatedCells, nodes |-> g]
  ELSE IF Head(recalcKeys) \notin DOMAIN cs \/ cs[Head(recalcKeys)].raw = ""
       THEN RecalcLoop(Tail(recalcKeys), cs, g, updatedCells)
       ELSE RecalcSet(recalcKeys, cs, updatedCells, Head(recalcKeys),
                      processCell(cs[Head(recalcKeys)].raw,
                                  a1ToAddress(KeyToA1(Head(recalcKeys))), cs, g))

\* updatedCells.set(key, updatedCell), with updatedCell and the graph that
\* processCell left in r
RecalcSet(recalcKeys, cs, updatedCells, key, r) ==
  RecalcLoop(Tail(recalcKeys), cs, r.nodes, MapSet(updatedCells, key, r.cell))

\* useFormulaEngine.recalculateDependents(changedKeys)
recalculateDependents(changedKeys, cs, g) ==
  RecalcLoop(getRecalcOrder(g, changedKeys), cs, g, EmptyMap)

\* ------------------------------------------------------------------- SheetApp
\* updatedCells.forEach((cell, k) => newCells.set(k, cell))
MapSetAll(m, updates) ==
  [k \in (DOMAIN m) \cup (DOMAIN updates) |-> IF k \in DOMAIN updates THEN updates[k] ELSE m[k]]

\* the end of SheetApp.updateCell: the recalculated cells r.updatedCells are
\* merged into newCells
HostMerge(newCells, r) ==
  [cells |-> MapSetAll(newCells, r.updatedCells), nodes |-> r.nodes]

\* SheetApp.updateCell once processCell has returned p: the edited cell is set
\* or deleted (with graph.removeCell) and the dependents are recalculated
HostSet(key, cs, p) ==
  HostMerge(IF p.cell.kind = "empty" THEN MapDelete(cs, key) ELSE MapSet(cs, key, p.cell),
            recalculateDependents(<<key>>, cs,
                                  IF p.cell.kind = "empty"
                                  THEN GraphRemoveCell(p.nodes, key) ELSE p.nodes))

\* SheetApp.updateCell(addr, raw): the cells map it hands to setState and the
\* graph it leaves; state.cells is the map of the render, cs
HostUpdateCell(addr, raw, cs, g) ==
  HostSet(cellKey(addr), cs, processCell(raw, addr, cs, g))

\* setState with the new cells map; the graph is the ref the handlers share
SetState(next) ==
  /\ cells' = next.cells
  /\ nodes' = next.nodes

Init ==
  /\ nodes = EmptyMap
  /\ cells = EmptyMap
  /\ last = NoCall
  /\ edited = NoEdit
  /\ edits = 0
  /\ evaluation = NoEvaluation
  /\ parsing = NoParsing
  /\ history = NoHistory
  /\ storage = NoStorage
  /\ editing = NoEditing

\* a committed edit: the host's updateCell followed by the render that makes the
\* new cells map the state of the next edit
UpdateCell ==
  /\ edits < MaxEdits
  /\ edits' = edits + 1
  /\ \E addr \in Cells : \E raw \in RawInputs :
       /\ SetState(HostUpdateCell(addr, raw, cells, nodes))
       /\ last' = "updateCell"
       /\ edited' = cellKey(addr)
  /\ UNCHANGED <<evaluation, parsing, history, storage, editing>>

Next == UpdateCell

Spec == Init /\ [][Next]_vars

\* ------------------------------------------------- the graph under its own API
GInit ==
  /\ nodes = EmptyMap
  /\ last = NoCall
  /\ cells = EmptyMap
  /\ edited = NoEdit
  /\ edits = 0
  /\ evaluation = NoEvaluation
  /\ parsing = NoParsing
  /\ history = NoHistory
  /\ storage = NoStorage
  /\ editing = NoEditing

GUpdateCell ==
  \E key \in Keys : \E dependencies \in SeqsUpTo(Keys, MaxDeps) :
    /\ nodes' = GraphUpdateCell(nodes, key, dependencies)
    /\ last' = "updateCell"
    /\ UNCHANGED <<cells, edited, edits, evaluation, parsing, history, storage, editing>>

GRemoveCell ==
  \E key \in Keys :
    /\ nodes' = GraphRemoveCell(nodes, key)
    /\ last' = "removeCell"
    /\ UNCHANGED <<cells, edited, edits, evaluation, parsing, history, storage, editing>>

GClear ==
  /\ nodes' = GraphClear(nodes)
  /\ last' = "clear"
  /\ UNCHANGED <<cells, edited, edits, evaluation, parsing, history, storage, editing>>

GNext == GUpdateCell \/ GRemoveCell \/ GClear

SpecGraph == GInit /\ [][GNext]_vars

\* ------------------------------------------------ the evaluator under study
\* the CellGetters: A1 is empty or 1, B1 empty, the text abc or 2, A2 empty or
\* the text 3x, B2 empty or 4, and AA1 holds 7
EvalGetters ==
  { [ref \in {"A1", "B1", "A2", "B2", "AA1"} |->
       CASE ref = "A1" -> a1 [] ref = "B1" -> b1 [] ref = "A2" -> a2
         [] ref = "B2" -> b2 [] OTHER -> Num(7)] :
    a1 \in {Undefined, Num(1)}, b1 \in {Undefined, Str("abc"), Num(2)},
    a2 \in {Undefined, Str("3x")}, b2 \in {Undefined, Num(4)} }

\* the ASTs: literals, references, ranges with their corners in every order,
\* in the column after Z and with a corner that is no address, one binary
\* operation over them, a sum whose left operand divides, and function calls
ScalarNodes ==
  {NumberNode(0), NumberNode(2), StringNode("abc"), StringNode("3x"),
   CellRefNode("A1"), CellRefNode("B1"), CellRefNode("A2")}

RangeNodes ==
  {RangeRefNode("A1", "B2"), RangeRefNode("B2", "A1"), RangeRefNode("B1", "A2"),
   RangeRefNode("AA1", "AA1"), RangeRefNode("A0", "A1")}

Operators == {"+", "-", "*", "/"}

BinaryNodes ==
  { BinaryOpNode(op, left, right) :
      op \in Operators,
      left \in ScalarNodes \cup {RangeRefNode("A1", "B2")},
      right \in ScalarNodes \cup {RangeRefNode("A1", "B2")} }

NestedNodes ==
  { BinaryOpNode("+", BinaryOpNode("/", NumberNode(2), divisor), CellRefNode("B2")) :
      divisor \in {NumberNode(0), NumberNode(2), CellRefNode("A1")} }

FunctionNames == {"SUM", "AVG", "AVERAGE", "MIN", "MAX", "COUNT"}

ArgNodes ==
  {NumberNode(2), StringNode("abc"), CellRefNode("A1"), RangeRefNode("A1", "B2"),
   BinaryOpNode("/", NumberNode(2), NumberNode(0))}

\* the identifiers a formula may write before "(", in any case
Identifiers == FunctionNames \cup {"sum", "Count", "foo", "Foo", "FOO"}

\* name.toUpperCase() on the identifiers of the model
toUpperCase(name) ==
  CASE name = "sum" -> "SUM"
    [] name = "Count" -> "COUNT"
    [] name \in {"foo", "Foo"} -> "FOO"
    [] OTHER -> name

\* the calls as parsePrimary builds them: the name uppercased
CallNodes ==
  { FunctionCallNode(toUpperCase(name), args) :
      name \in Identifiers, args \in SeqsUpTo(ArgNodes, MaxArgs) }

EvalAsts == ScalarNodes \cup RangeNodes \cup BinaryNodes \cup NestedNodes \cup CallNodes

\* no call of evaluateFormula has returned yet
NoResult == [value |-> Undefined, text |-> Undefined, error |-> "", usedRefs |-> <<>>]

EInit ==
  /\ nodes = EmptyMap
  /\ last = NoCall
  /\ cells = EmptyMap
  /\ edited = NoEdit
  /\ edits = 0
  /\ evaluation \in { [ast |-> ast, get |-> get, result |-> NoResult] :
                      ast \in EvalAsts, get \in EvalGetters }
  /\ parsing = NoParsing
  /\ history = NoHistory
  /\ storage = NoStorage
  /\ editing = NoEditing

\* const result = evaluateFormula(ast, getCellValue)
EEvaluate ==
  /\ last = NoCall
  /\ evaluation' = [evaluation EXCEPT
                      !.result = evaluateFormula(evaluation.ast, evaluation.get)]
  /\ last' = "evaluateFormula"
  /\ UNCHANGED <<nodes, cells, edited, edits, parsing, history, storage, editing>>

\* processCell goes on for the cell at addr:
\* dependencyGraph.updateCell(key, usedKeys)
EUpdateEdges ==
  /\ last = "evaluateFormula"
  /\ \E addr \in Cells :
       /\ nodes' = GraphUpdateCell(nodes, cellKey(addr), UsedKeys(evaluation.result.usedRefs))
       /\ edited' = cellKey(addr)
  /\ last' = "updateCell"
  /\ UNCHANGED <<cells, edits, evaluation, parsing, history, storage, editing>>

ENext == EEvaluate \/ EUpdateEdges

SpecEval == EInit /\ [][ENext]_vars

\* --------------------------------------------- what the graph claims speak of
\* a depends on b, read from a's dependencies set
DependsOn(g, a, b) == a \in DOMAIN g /\ SetHas(g[a].dependencies, b)

\* a is in b's dependents set
InDependentsOf(g, a, b) == b \in DOMAIN g /\ SetHas(g[b].dependents, a)

DependenciesOf(g, k) == IF k \in DOMAIN g THEN Range(g[k].dependencies) ELSE {}

DependentsOf(g, k) == IF k \in DOMAIN g THEN Range(g[k].dependents) ELSE {}

\* least set that holds S and is closed under the dependencies that lie in within
RECURSIVE DependencyClosure(_, _, _)
DependencyClosure(g, S, within) ==
  LET N == S \cup (UNION { DependenciesOf(g, k) : k \in S } \cap within)
  IN  IF N = S THEN S ELSE DependencyClosure(g, N, within)

RECURSIVE DependentClosure(_, _)
DependentClosure(g, S) ==
  LET N == S \cup UNION { DependentsOf(g, k) : k \in S }
  IN  IF N = S THEN S ELSE DependentClosure(g, N)

\* the keys of within reached from k by one or more dependency edges inside within
ReachByDependencies(g, k, within) ==
  DependencyClosure(g, DependenciesOf(g, k) \cap within, within)

\* the keys reached from k by one or more dependents edges
ReachByDependents(g, k) == DependentClosure(g, DependentsOf(g, k))

\* the dependency edges between keys of S contain a cycle
CyclicWithin(g, S) == \E k \in S : k \in ReachByDependencies(g, k, S)

\* a cycle (a self-reference included) is reachable from k along dependency edges
CycleReachableFrom(g, k) ==
  \E c \in {k} \cup ReachByDependencies(g, k, Keys) : c \in ReachByDependencies(g, c, Keys)

NoDuplicates(s) == Cardinality(Range(s)) = Len(s)

IndexOf(s, x) == CHOOSE i \in 1 .. Len(s) : s[i] = x

\* every key of the list comes after each of its dependencies that is in the list
DependenciesFirst(g, s) ==
  \A i \in 1 .. Len(s) : \A j \in 1 .. Len(s) :
    DependsOn(g, s[i], s[j]) => j < i

\* C1: in every graph that updateCell, removeCell and clear calls produce, B is in
\* A's dependencies iff A is in B's dependents, and every key that occurs in a
\* dependencies or dependents set has a node of its own
C1_EdgesSynchronized ==
  /\ \A a \in Keys : \A b \in Keys : DependsOn(nodes, a, b) <=> InDependentsOf(nodes, a, b)
  /\ \A k \in DOMAIN nodes :
       Range(nodes[k].dependencies) \cup Range(nodes[k].dependents) \subseteq DOMAIN nodes

\* a removeCell has left a graph that still holds an edge
C1_Witness ==
  /\ last = "removeCell"
  /\ \E a \in Keys : \E b \in Keys : a /= b /\ DependsOn(nodes, a, b)
  /\ Cardinality(DOMAIN nodes) = 2

\* C3: getRecalcOrder returns a duplicate-free list of exactly the union of
\* getAffectedCells over changedKeys; when the dependency edges among those cells
\* are acyclic every cell comes after its dependencies that are in the list, and
\* when they are cyclic the affected cells are still all returned
C3_RecalcOrder ==
  LET affectedOf == [k \in Keys |-> Range(getAffectedCells(nodes, k))]
  IN  \A changedKeys \in SeqsUpTo(Keys, MaxChanged) :
        LET order    == getRecalcOrder(nodes, changedKeys)
            affected == UNION { affectedOf[k] : k \in Range(changedKeys) }
        IN  /\ NoDuplicates(order)
            /\ Range(order) = affected
            /\ ~CyclicWithin(nodes, affected) => DependenciesFirst(nodes, order)

\* a changed key whose three affected cells hold a cycle, so that the
\* topological order is null and the fallback list is returned
C3_Witness ==
  \E k \in Keys :
    LET affected == RecalcAffected(nodes, <<k>>, <<>>)
    IN  /\ Len(affected) = 3
        /\ CyclicWithin(nodes, Range(affected))
        /\ getTopologicalOrder(nodes, affected).isNull
        /\ getRecalcOrder(nodes, <<k>>) = affected

C5_NullIffCycle ==
  \A keys \in OrderedSets(Keys) :
    getTopologicalOrder(nodes, keys).isNull <=> CyclicWithin(nodes, Range(keys))

\* C6: hasCycle(key) is true iff a dependency cycle, a self-reference included, is
\* reachable from key along dependency edges; so it is false for every key of an
\* acyclic graph and true for every cell of a cycle
C6_HasCycle ==
  /\ \A key \in Keys : hasCycle(nodes, key) <=> CycleReachableFrom(nodes, key)
  /\ ~CyclicWithin(nodes, Keys) => \A key \in Keys : ~hasCycle(nodes, key)
  /\ \A key \in Keys : key \in ReachByDependencies(nodes, key, Keys) => hasCycle(nodes, key)

\* a cell outside a two-cell cycle reaches it, and the third cell of another
\* graph is reached twice without any cycle
C6_Witness ==
  \E a \in Keys : \E b \in Keys : \E c \in Keys :
    /\ a /= b /\ b /= c /\ a /= c
    /\ DependsOn(nodes, a, b) /\ DependsOn(nodes, b, c) /\ DependsOn(nodes, c, b)
    /\ ~DependsOn(nodes, b, a) /\ ~DependsOn(nodes, c, a)
    /\ hasCycle(nodes, a)

\* C8: getAffectedCells(key) returns exactly the cells reached from key by one or
\* more dependents edges, each once, on cyclic graphs too
C8_AffectedCells ==
  \A key \in Keys :
    LET affected == getAffectedCells(nodes, key)
    IN  /\ Range(affected) = ReachByDependents(nodes, key)
        /\ NoDuplicates(affected)

\* a cell with an indirect dependent that is not a direct one, in a cyclic graph
C8_Witness ==
  /\ CyclicWithin(nodes, Keys)
  /\ \E key \in Keys : \E d \in ReachByDependents(nodes, key) : d \notin DependentsOf(nodes, key)

\* C9: the result of getAffectedCells(key) never contains key itself
C9_KeyExcluded ==
  \A key \in Keys : ~SetHas(getAffectedCells(nodes, key), key)

\* the edges of g between keys other than key, in both directions
OtherEdges(g, key) ==
  { e \in (Keys \ {key}) \X (Keys \ {key}) : DependsOn(g, e[1], e[2]) }

OtherReverseEdges(g, key) ==
  { e \in (Keys \ {key}) \X (Keys \ {key}) : InDependentsOf(g, e[1], e[2]) }

\* what C10 says of the graph after updateCell(key, deps) on the graph before
UpdateCellFrame(before, after, key, deps) ==
  /\ key \in DOMAIN after
  /\ Range(after[key].dependencies) = Range(deps)
  /\ \A d \in DependenciesOf(before, key) \ Range(deps) : ~InDependentsOf(after, key, d)
  /\ \A d \in Range(deps) : InDependentsOf(after, key, d)
  /\ \A d \in Range(deps) \ (DOMAIN before \cup {key}) :
       d \in DOMAIN after /\ after[d].dependencies = <<>>
  /\ DOMAIN after = DOMAIN before \cup {key} \cup Range(deps)
  /\ DependentsOf(after, key) \ {key} = DependentsOf(before, key) \ {key}
  /\ OtherEdges(after, key) = OtherEdges(before, key)
  /\ OtherReverseEdges(after, key) = OtherReverseEdges(before, key)

\* C10: updateCell(key, deps) replaces key's outgoing edges and nothing else
C10_UpdateCellFrame ==
  \A key \in Keys : \A deps \in SeqsUpTo(Keys, MaxDeps) :
    UpdateCellFrame(nodes, GraphUpdateCell(nodes, key, deps), key, deps)

\* an updateCell has left a key with a dependency and a dependent of its own,
\* next to a node that stands alone
C10_Witness ==
  /\ last = "updateCell"
  /\ \E key \in DOMAIN nodes :
       /\ DependenciesOf(nodes, key) \ {key} /= {}
       /\ DependentsOf(nodes, key) \ {key} /= {}
       /\ DependenciesOf(nodes, key) \cap DependentsOf(nodes, key) = {}

\* the keys reached from the keys of S by dependents edges that never pass
\* through avoid
RECURSIVE DependentClosureAvoiding(_, _, _)
DependentClosureAvoiding(g, S, avoid) ==
  LET N == S \cup (UNION { DependentsOf(g, k) : k \in S } \ {avoid})
  IN  IF N = S THEN S ELSE DependentClosureAvoiding(g, N, avoid)

\* what holds of the graph after removeCell(key) whatever the cells that
\* depended on key still reach: key is gone from the nodes and from every set,
\* the edges between other cells are kept, an unknown key changes nothing
RemoveCellFrame(before, after, key) ==
  /\ key \notin DOMAIN after
  /\ \A k \in DOMAIN after : ~DependsOn(after, k, key) /\ ~InDependentsOf(after, key, k)
  /\ \A k \in DOMAIN after : ~InDependentsOf(after, k, key) /\ ~DependsOn(after, key, k)
  /\ DOMAIN after = DOMAIN before \ {key}
  /\ OtherEdges(after, key) = OtherEdges(before, key)
  /\ OtherReverseEdges(after, key) = OtherReverseEdges(before, key)
  /\ key \notin DOMAIN before => after = before

\* C11 as stated: after removeCell(key), key and every cell that depended on key
\* are absent from getAffectedCells of each former dependency of key
C11_RemoveCellAsStated ==
  \A key \in Keys :
    /\ RemoveCellFrame(nodes, GraphRemoveCell(nodes, key), key)
    /\ \A d \in DependenciesOf(nodes, key) \ {key} :
         \A x \in {key} \cup DependentsOf(nodes, key) :
           ~SetHas(getAffectedCells(GraphRemoveCell(nodes, key), d), x)

\* C11: after removeCell(key) the graph has no node for key and no set holds
\* key, the edges between other cells are unchanged, an unknown key leaves the
\* graph unchanged, and getAffectedCells of another cell d holds exactly the cells
\* that d reached before along dependents edges that avoid key: key never, a cell
\* that depended on key only if it also reaches d by another path
C11_RemoveCell ==
  \A key \in Keys :
    /\ RemoveCellFrame(nodes, GraphRemoveCell(nodes, key), key)
    /\ \A d \in Keys \ {key} :
         Range(getAffectedCells(GraphRemoveCell(nodes, key), d))
           = DependentClosureAvoiding(nodes, DependentsOf(nodes, d) \ {key}, key)

\* removeCell(key) has just run on the graph in which key depended on d and x
\* depended on key and on d: x is still affected by d
C11_Witness ==
  /\ last = "removeCell"
  /\ \E key \in Keys : \E d \in Keys \ {key} : \E x \in Keys \ {key, d} :
       /\ nodes = GraphRemoveCell(
                    GraphUpdateCell(GraphUpdateCell(EmptyMap, key, <<d>>), x, <<key, d>>),
                    key)
       /\ key \notin DOMAIN nodes
       /\ SetHas(getAffectedCells(nodes, d), x)

\* ------------------------------------------- what the sheet claims speak of
\* the keys of the cells an AST refers to
RECURSIVE AstKeys(_)
AstKeys(node) ==
  CASE node.type = "CellRef"  -> {cellKey(a1ToAddress(node.cellRef))}
    [] node.type = "BinaryOp" -> AstKeys(node.left) \cup AstKeys(node.right)
    [] OTHER -> {}

\* the cells that the content of cell k refers to: none unless it is a formula
\* that parses
ReferencedBy(cs, k) ==
  IF k \in DOMAIN cs /\ cs[k].raw \in FormulaTexts /\ parseFormula(cs[k].raw).ok
  THEN AstKeys(parseFormula(cs[k].raw).ast)
  ELSE {}

RECURSIVE ReferenceClosure(_, _)
ReferenceClosure(cs, S) ==
  LET N == S \cup UNION { ReferencedBy(cs, k) : k \in S }
  IN  IF N = S THEN S ELSE ReferenceClosure(cs, N)

\* the cells that the formula of k reaches through one or more references
ReachByFormulas(cs, k) == ReferenceClosure(cs, ReferencedBy(cs, k))

\* the formula of k refers to itself or reaches a circular reference
FormulaCyclic(cs, k) ==
  \E c \in {k} \cup ReachByFormulas(cs, k) : c \in ReachByFormulas(cs, c)

\* C2: after the host's updateCell, every formula cell that transitively depends
\* on the edited cell holds the value of its formula evaluated against the
\* sheet as it is after the edit
C2_DependentsFresh ==
  edited /= NoEdit =>
    \A k \in DOMAIN cells :
      (cells[k].kind = "formula" /\ edited \in ReachByFormulas(cells, k))
        => cells[k].value = evaluateFormula(parseFormula(cells[k].raw).ast, CellGetter(cells)).value

\* C7: a cell is displayed as #CYCLE! iff its current formula refers to itself or
\* reaches a circular reference through the formulas the cells now hold
C7_CycleDisplayed ==
  \A k \in Keys :
    (k \in DOMAIN cells /\ cells[k].display = Str("#CYCLE!")) <=> FormulaCyclic(cells, k)

\* C12: a cell that formulas of the sheet refer to has a node that holds those
\* formulas as dependents, whether or not it has content of its own (the node
\* is absent only when no cell refers to it), and the node of a cell whose
\* content is not a formula is a placeholder: it has no dependencies
C12_PlaceholderKept ==
  \A k \in Keys :
    /\ \A f \in DOMAIN cells :
         k \in ReferencedBy(cells, f) => k \in DOMAIN nodes /\ InDependentsOf(nodes, f, k)
    /\ (k \in DOMAIN nodes /\ ReferencedBy(cells, k) = {}) => nodes[k].dependencies = <<>>

\* --------------------------------------- what the evaluator claims speak of
\* the call of evaluateFormula under study has returned
Evaluated == last /= NoCall

\* what Evaluator.evaluate does on the AST under study
Outcome == evaluate(evaluation.ast, evaluation.get, <<>>)

\* C13: evaluateFormula returns a result record for every AST and CellGetter:
\* error is set iff neither value nor text is, a numeric result sets value and
\* its rendering as text, a string result sets text only, a range that reaches
\* the top level gives error #VALUE!, a thrown error gives its message, and
\* usedRefs is the set the evaluator has accumulated
C13_ResultRecord ==
  Evaluated =>
    LET result == evaluation.result
    IN  /\ (result.error /= "") <=> (result.value = Undefined /\ result.text = Undefined)
        /\ result.value /= Undefined =>
             result.value.t = "number" /\ result.text = Rendering(result.value)
        /\ (Outcome.thrown = "" /\ Outcome.value.t = "number") =>
             result.value = Outcome.value /\ result.error = ""
        /\ (Outcome.thrown = "" /\ Outcome.value.t = "string") =>
             result.text = Outcome.value /\ result.value = Undefined /\ result.error = ""
        /\ (Outcome.thrown = "" /\ Outcome.value.t = "array") => result.error = "#VALUE!"
        /\ (evaluation.ast.type = "RangeRef"
              /\ a1ToAddress(evaluation.ast.start) /= NullAddress
              /\ a1ToAddress(evaluation.ast.end) /= NullAddress) => result.error = "#VALUE!"
        /\ Outcome.thrown /= "" => result.error = Outcome.thrown
        /\ result.usedRefs = Outcome.usedRefs

\* a range was the whole formula: the result is #VALUE! and names the cells read
C13_Witness ==
  /\ last = "evaluateFormula"
  /\ evaluation.ast = RangeRefNode("A1", "B2")
  /\ evaluation.result.error = "#VALUE!"
  /\ Len(evaluation.result.usedRefs) = 4
  /\ evaluation.get["A1"] = Num(1)

\* the keys of the cells that the references written in a formula name: its
\* cell references and the two corners of its ranges
RECURSIVE NamedKeys(_)
RECURSIVE NamedKeysOfArgs(_)
NamedKeys(node) ==
  CASE node.type = "CellRef"      -> {cellKey(a1ToAddress(node.cellRef))}
    [] node.type = "RangeRef"     -> {cellKey(a1ToAddress(node.start)),
                                      cellKey(a1ToAddress(node.end))}
    [] node.type = "BinaryOp"     -> NamedKeys(node.left) \cup NamedKeys(node.right)
    [] node.type = "FunctionCall" -> NamedKeysOfArgs(node.args)
    [] OTHER -> {}

NamedKeysOfArgs(args) ==
  IF args = <<>> THEN {} ELSE NamedKeys(Head(args)) \cup NamedKeysOfArgs(Tail(args))

\* the host has recorded the edges of the formula under study for the cell edited
EdgesRecorded == last = "updateCell"

\* C14 as stated: the graph records every cell the formula references, also the
\* references of operands that were never evaluated because an earlier operand
\* failed
C14_AllReferencesAsStated ==
  EdgesRecorded => NamedKeys(evaluation.ast) \subseteq DependenciesOf(nodes, edited)

\* C14: the graph records as K's dependencies the cells of the references the
\* evaluator consulted, whether or not the evaluation succeeded: every
\* reference of the formula when the evaluation succeeds or fails in the
\* outermost operation itself, after both operands were evaluated
C14_ConsultedReferences ==
  EdgesRecorded =>
    /\ DependenciesOf(nodes, edited) = Range(UsedKeys(Outcome.usedRefs))
    /\ evaluation.result.error = "" =>
         NamedKeys(evaluation.ast) \subseteq DependenciesOf(nodes, edited)
    /\ (evaluation.ast.type = "BinaryOp"
          /\ evaluate(evaluation.ast.left, evaluation.get, <<>>).thrown = ""
          /\ evaluate(evaluation.ast.right, evaluation.get, <<>>).thrown = "")
         => NamedKeys(evaluation.ast) \subseteq DependenciesOf(nodes, edited)

\* =A1/B1 with B1 empty failed with #DIV/0! and both cells are dependencies of
\* the cell edited
C14_Witness ==
  /\ EdgesRecorded
  /\ evaluation.ast = BinaryOpNode("/", CellRefNode("A1"), CellRefNode("B1"))
  /\ evaluation.result.error = "#DIV/0!"
  /\ DependenciesOf(nodes, edited) = {<<0, 0>>, <<0, 1>>}

\* the operands of the binary operation under study, each evaluated on its own
LeftOutcome == evaluate(evaluation.ast.left, evaluation.get, <<>>)

RightOutcome == evaluate(evaluation.ast.right, evaluation.get, <<>>)

\* the AST under study is a binary operation with this operator whose operands
\* both evaluate and coerce to numbers
Arithmetic(operator) ==
  /\ evaluation.ast.type = "BinaryOp"
  /\ evaluation.ast.operator = operator
  /\ LeftOutcome.thrown = "" /\ ~toNumber(LeftOutcome.value).nan
  /\ RightOutcome.thrown = "" /\ ~toNumber(RightOutcome.value).nan

\* the node is a reference to a cell for which the getter returns nothing
AbsentCell(node) ==
  node.type = "CellRef" /\ Lookup(evaluation.get, node.cellRef) = Undefined

\* C15: a division whose operands coerce to numbers and whose divisor is zero
\* gives error #DIV/0! and no value, whatever the dividend; a reference to an
\* absent cell is a zero divisor; with another divisor the value times the
\* divisor is the dividend
C15_DivisionByZero ==
  (Evaluated /\ Arithmetic("/")) =>
    /\ toNumber(RightOutcome.value).num = Num(0) =>
         /\ evaluation.result.error = "#DIV/0!"
         /\ evaluation.result.value = Undefined
         /\ evaluation.result.text = Undefined
    /\ AbsentCell(evaluation.ast.right) => evaluation.result.error = "#DIV/0!"
    /\ toNumber(RightOutcome.value).num /= Num(0) =>
         /\ evaluation.result.error = ""
         /\ Times(evaluation.result.value, toNumber(RightOutcome.value).num)
              = toNumber(LeftOutcome.value).num

\* 0 divided by an absent cell gave #DIV/0!
C15_Witness ==
  /\ Evaluated
  /\ evaluation.ast = BinaryOpNode("/", NumberNode(0), CellRefNode("A1"))
  /\ evaluation.get["A1"] = Undefined
  /\ evaluation.result.error = "#DIV/0!"

\* a string with no numeric prefix
NonNumericText(value) == value.t = "string" /\ parseFloat(value.s).nan

\* the number an operand stands for: itself, or the numeric prefix of a string
NumberOf(value) == IF value.t = "string" THEN Num(parseFloat(value.s).n) ELSE value

\* the operation of the operator on two numbers
Applied(operator, x, y) ==
  CASE operator = "+" -> Plus(x, y)
    [] operator = "-" -> Minus(x, y)
    [] operator = "*" -> Times(x, y)

\* the argument list without the string literals that are no numbers
RECURSIVE WithoutNonNumericText(_)
WithoutNonNumericText(args) ==
  IF args = <<>> THEN <<>>
  ELSE IF Head(args).type = "String" /\ NonNumericText(Head(args).value)
       THEN WithoutNonNumericText(Tail(args))
       ELSE <<Head(args)>> \o WithoutNonNumericText(Tail(args))

\* the getter in which the cells that hold a string that is no number are empty
WithoutNonNumericCells(get) ==
  [ref \in DOMAIN get |-> IF NonNumericText(get[ref]) THEN Undefined ELSE get[ref]]

\* no argument of the call under study throws
ArgumentsEvaluate ==
  \A i \in 1 .. Len(evaluation.ast.args) :
    evaluate(evaluation.ast.args[i], evaluation.get, <<>>).thrown = ""

\* C16: in +, - and * an operand that is a string with a numeric prefix counts as
\* that number, and an operand that is a string with no numeric prefix makes the
\* evaluation fail with #VALUE!; as an argument of a function, or in a cell of a
\* range argument, the same string is left out of the aggregate, which is the
\* one of the call without it, and the evaluation does not fail
C16_Coercion ==
  Evaluated =>
    /\ (evaluation.ast.type = "BinaryOp" /\ evaluation.ast.operator \in {"+", "-", "*"}
          /\ LeftOutcome.thrown = "" /\ LeftOutcome.value.t \in {"number", "string"}
          /\ RightOutcome.thrown = "" /\ RightOutcome.value.t \in {"number", "string"}) =>
         IF NonNumericText(LeftOutcome.value) \/ NonNumericText(RightOutcome.value)
         THEN evaluation.result.error = "#VALUE!" /\ evaluation.result.value = Undefined
         ELSE /\ evaluation.result.error = ""
              /\ evaluation.result.value
                   = Applied(evaluation.ast.operator, NumberOf(LeftOutcome.value),
                             NumberOf(RightOutcome.value))
    /\ (evaluation.ast.type = "FunctionCall" /\ evaluation.ast.name \in FunctionNames
          /\ ArgumentsEvaluate) =>
         /\ evaluation.result.error = ""
         /\ evaluation.result.value
              = evaluateFormula(
                  FunctionCallNode(evaluation.ast.name,
                                   WithoutNonNumericText(evaluation.ast.args)),
                  WithoutNonNumericCells(evaluation.get)).value

\* COUNT("abc", A1:B2) over A1 = 1, B1 = "abc", A2 = "3x", B2 = 4 returned 3
C16_Witness ==
  /\ Evaluated
  /\ evaluation.ast
       = FunctionCallNode("COUNT", <<StringNode("abc"), RangeRefNode("A1", "B2")>>)
  /\ evaluation.get["A1"] = Num(1) /\ evaluation.get["B1"] = Str("abc")
  /\ evaluation.get["A2"] = Str("3x") /\ evaluation.get["B2"] = Num(4)
  /\ evaluation.result.value = Num(3)

\* an absent cell that is an operand of +, - or * next to a number counts as 0
AbsentOperandIsZero ==
  (evaluation.ast.type = "BinaryOp" /\ evaluation.ast.operator \in {"+", "-", "*"}) =>
    /\ (AbsentCell(evaluation.ast.left) /\ evaluation.ast.right.type = "Number") =>
         evaluation.result.value
           = Applied(evaluation.ast.operator, Num(0), evaluation.ast.right.value)
    /\ (AbsentCell(evaluation.ast.right) /\ evaluation.ast.left.type = "Number") =>
         evaluation.result.value
           = Applied(evaluation.ast.operator, evaluation.ast.left.value, Num(0))

\* C17 as stated: an absent cell counts as 0 as an operand of arithmetic, and a
\* formula that is only a reference to an absent cell returns it as it is,
\* absent: the result holds no value
C17_BareAbsentAsStated ==
  Evaluated =>
    /\ AbsentOperandIsZero
    /\ AbsentCell(evaluation.ast) => evaluation.result.value = Undefined

\* C17: a reference to an absent cell counts as 0 as an operand of arithmetic,
\* and also when it is the whole formula: the result is the number 0 with the
\* text of 0 and no error
C17_AbsentIsZero ==
  Evaluated =>
    /\ AbsentOperandIsZero
    /\ AbsentCell(evaluation.ast) =>
         /\ evaluation.result.value = Num(0)
         /\ evaluation.result.text = Rendering(Num(0))
         /\ evaluation.result.error = ""

\* the formula =A1 over an empty A1 returned the number 0
C17_Witness ==
  /\ Evaluated
  /\ evaluation.ast = CellRefNode("A1")
  /\ evaluation.get["A1"] = Undefined
  /\ evaluation.result.value = Num(0)

\* the text of an address: the reference text that a1ToAddress turns into it
AddressText(addr) == CHOOSE ref \in EvalRefTexts : a1ToAddress(ref) = addr

\* the addresses of the inclusive rectangle between two corners, row by row
Rectangle(startAddr, endAddr) ==
  LET minRow == Min(startAddr.row, endAddr.row)
      minCol == Min(startAddr.col, endAddr.col)
      cols   == Max(startAddr.col, endAddr.col) - minCol + 1
      rows   == Max(startAddr.row, endAddr.row) - minRow + 1
  IN  [i \in 1 .. rows * cols |->
         [row |-> minRow + ((i - 1) \div cols), col |-> minCol + ((i - 1) % cols)]]

\* the numeric values among a list of values: numbers and strings with a numeric
\* prefix, as numbers
RECURSIVE NumericValues(_)
NumericValues(vals) ==
  IF vals = <<>> THEN <<>>
  ELSE IF Head(vals).t \in {"number", "string"} /\ ~NonNumericText(Head(vals))
       THEN <<NumberOf(Head(vals))>> \o NumericValues(Tail(vals))
       ELSE NumericValues(Tail(vals))

\* the values the cells of a rectangle hold; an empty cell holds Undefined
CellValues(get, addrs) == [i \in 1 .. Len(addrs) |-> Lookup(get, AddressText(addrs[i]))]

\* the numeric values an argument yields: those of the cells of a range, the
\* one of a cell that holds a value (an empty cell yields none), the value of
\* any other expression
ArgumentValues(node, get) ==
  CASE node.type = "RangeRef" ->
         NumericValues(CellValues(get, Rectangle(a1ToAddress(node.start),
                                                 a1ToAddress(node.end))))
    [] node.type = "CellRef" -> NumericValues(<<Lookup(get, node.cellRef)>>)
    [] OTHER -> NumericValues(<<evaluate(node, get, <<>>).value>>)

\* V: the numeric values found after flattening the arguments
RECURSIVE FlattenedValues(_, _)
FlattenedValues(args, get) ==
  IF args = <<>> THEN <<>>
  ELSE ArgumentValues(Head(args), get) \o FlattenedValues(Tail(args), get)

\* x is the least (greatest) element of the list
IsLeast(x, vals) ==
  (\E i \in 1 .. Len(vals) : vals[i] = x) /\ \A i \in 1 .. Len(vals) : ~Less(vals[i], x)

IsGreatest(x, vals) ==
  (\E i \in 1 .. Len(vals) : vals[i] = x) /\ \A i \in 1 .. Len(vals) : ~Less(x, vals[i])

\* what C18 says of the call of name over the numeric values V
Aggregate(name, value, V) ==
  CASE name = "SUM" -> value = SumOf(V)
    [] name \in {"AVG", "AVERAGE"} ->
         IF V = <<>> THEN value = Num(0) ELSE Times(value, Num(Len(V))) = SumOf(V)
    [] name = "MIN" -> IF V = <<>> THEN value = Num(0) ELSE IsLeast(value, V)
    [] name = "MAX" -> IF V = <<>> THEN value = Num(0) ELSE IsGreatest(value, V)
    [] name = "COUNT" -> value = Num(Len(V))

\* C18: with V the numeric values found after flattening the scalar and range
\* arguments, SUM returns the sum of V, AVG and AVERAGE its mean, MIN and MAX its
\* least and greatest element, COUNT its length, and AVG, AVERAGE, MIN and MAX
\* return 0 when V is empty; an empty cell adds nothing to V
C18_Aggregates ==
  (Evaluated /\ evaluation.ast.type = "FunctionCall"
     /\ evaluation.ast.name \in FunctionNames /\ ArgumentsEvaluate) =>
    /\ evaluation.result.error = ""
    /\ Aggregate(evaluation.ast.name, evaluation.result.value,
                 FlattenedValues(evaluation.ast.args, evaluation.get))

\* the call under study names no function of the evaluator
UnknownCall ==
  /\ Evaluated
  /\ evaluation.ast.type = "FunctionCall"
  /\ evaluation.ast.name \notin FunctionNames

\* what the first argument that throws, if any, throws
RECURSIVE FirstThrown(_, _)
FirstThrown(args, get) ==
  IF args = <<>> THEN ""
  ELSE IF evaluate(Head(args), get, <<>>).thrown /= ""
       THEN evaluate(Head(args), get, <<>>).thrown
       ELSE FirstThrown(Tail(args), get)

\* C19 as stated: a call of a function whose uppercased name is none of SUM,
\* AVG, AVERAGE, MIN, MAX, COUNT returns the error 'Unknown function: <NAME>',
\* whatever its arguments are
C19_UnknownWhateverArguments ==
  UnknownCall => evaluation.result.error = "Unknown function: " \o evaluation.ast.name

\* C19: a call of a function whose uppercased name is none of SUM, AVG,
\* AVERAGE, MIN, MAX, COUNT returns the error 'Unknown function: <NAME>' with
\* the uppercased name when its arguments evaluate without error; when an
\* argument throws, the call returns the error of the first such argument
C19_UnknownFunction ==
  UnknownCall =>
    /\ evaluation.ast.name = toUpperCase(evaluation.ast.name)
    /\ evaluation.result.value = Undefined
    /\ evaluation.result.text = Undefined
    /\ evaluation.result.error =
         IF ArgumentsEvaluate THEN "Unknown function: " \o evaluation.ast.name
         ELSE FirstThrown(evaluation.ast.args, evaluation.get)

C19_Witness ==
  /\ UnknownCall
  /\ evaluation.ast = FunctionCallNode(toUpperCase("foo"),
                                       <<NumberNode(2), RangeRefNode("A1", "B2")>>)
  /\ evaluation.result.error = "Unknown function: FOO"

\* the call under study evaluates a range whose two corners are addresses
RangeEvaluated ==
  /\ Evaluated
  /\ evaluation.ast.type = "RangeRef"
  /\ a1ToAddress(evaluation.ast.start) /= NullAddress
  /\ a1ToAddress(evaluation.ast.end) /= NullAddress

\* the values of a list that are present
RECURSIVE PresentValues(_)
PresentValues(vals) ==
  IF vals = <<>> THEN <<>>
  ELSE IF Head(vals) = Undefined THEN PresentValues(Tail(vals))
       ELSE <<Head(vals)>> \o PresentValues(Tail(vals))

\* the texts of the cells of the rectangle between the corners of a range node
RectangleTexts(node) ==
  { AddressText(Rectangle(a1ToAddress(node.start), a1ToAddress(node.end))[i]) :
      i \in DOMAIN Rectangle(a1ToAddress(node.start), a1ToAddress(node.end)) }

\* C20: for a range whose two endpoints are valid addresses, in any column of
\* the grid, the columns beyond Z included, and with the corners in any order,
\* evaluating the range records in usedRefs exactly the cells of the inclusive
\* rectangle between the corners and both endpoints, yields the present values
\* of those cells in row-major order, and yields the same values when the
\* corners are exchanged
C20_RangeRectangle ==
  RangeEvaluated =>
    /\ Range(evaluation.result.usedRefs) =
         {evaluation.ast.start, evaluation.ast.end} \cup RectangleTexts(evaluation.ast)
    /\ evaluate(evaluation.ast, evaluation.get, <<>>).thrown = ""
    /\ evaluate(evaluation.ast, evaluation.get, <<>>).value =
         Arr(PresentValues(CellValues(evaluation.get,
               Rectangle(a1ToAddress(evaluation.ast.start),
                         a1ToAddress(evaluation.ast.end)))))
    /\ evaluate(RangeRefNode(evaluation.ast.end, evaluation.ast.start),
                evaluation.get, <<>>).value =
         evaluate(evaluation.ast, evaluation.get, <<>>).value

\* ------------------------------------------------------ lib/parser.ts: texts
\* A JavaScript string is modelled as the sequence of its characters, each a
\* string of length one; positions count from 0 as in the source.
Digits == {"0", "1", "2", "3", "4", "5", "6", "7", "8", "9"}

LowerLetters ==
  <<"a", "b", "c", "d", "e", "f", "g", "h", "i", "j", "k", "l", "m",
    "n", "o", "p", "q", "r", "s", "t", "u", "v", "w", "x", "y", "z">>

\* /[A-Za-z]/
LetterChars == Range(Letters) \cup Range(LowerLetters)

\* /[A-Za-z0-9_]/
IdentifierChars == LetterChars \cup Digits \cup {"_"}

\* /\s/ on the characters of the model
SpaceChars == {" "}

\* '+-*/^'
OperatorChars == {"+", "-", "*", "/", "^"}

\* input[pos], '' past the end (undefined || '')
CharAt(input, pos) == IF pos >= 0 /\ pos < Len(input) THEN input[pos + 1] ELSE ""

\* input.substring(start, end)
Substring(input, start, end) == SubSeq(input, start + 1, end)

\* the string of a sequence of characters
RECURSIVE Join(_)
Join(chars) == IF chars = <<>> THEN "" ELSE Head(chars) \o Join(Tail(chars))

\* String.prototype.trim
RECURSIVE TrimStart(_)
TrimStart(chars) ==
  IF chars /= <<>> /\ Head(chars) \in SpaceChars THEN TrimStart(Tail(chars)) ELSE chars

RECURSIVE TrimEnd(_)
TrimEnd(chars) ==
  IF chars /= <<>> /\ chars[Len(chars)] \in SpaceChars
  THEN TrimEnd(SubSeq(chars, 1, Len(chars) - 1))
  ELSE chars

trim(chars) == TrimEnd(TrimStart(chars))

\* the position after the longest run of characters of a class that starts at
\* pos: a while loop that advances pos, or a greedy [...]* of a pattern
RECURSIVE RunEnd(_, _, _)
RunEnd(input, pos, class) ==
  IF pos < Len(input) /\ input[pos + 1] \in class THEN RunEnd(input, pos + 1, class)
  ELSE pos

\* ------------------------------------------------------------------ Tokenizer
Token(type, value, pos) == [type |-> type, value |-> value, pos |-> pos]

\* what one reader returns: the token and the position the scan goes on from,
\* or the ParseError it throws
Read(token, pos) == [token |-> token, pos |-> pos, error |-> "", errorPos |-> 0]

ReadError(message, pos) ==
  [token |-> Token("EOF", <<>>, 0), pos |-> pos, error |-> message, errorPos |-> pos]

\* the while loop of readNumber: digits, and one '.' while hasDecimal is false
RECURSIVE NumberLoop(_, _, _)
NumberLoop(input, pos, hasDecimal) ==
  IF pos >= Len(input) THEN pos
  ELSE IF input[pos + 1] \in Digits THEN NumberLoop(input, pos + 1, hasDecimal)
       ELSE IF input[pos + 1] = "." /\ ~hasDecimal THEN NumberLoop(input, pos + 1, TRUE)
            ELSE pos

\* Tokenizer.readNumber
readNumber(input, start) ==
  Read(Token("NUMBER",
             Substring(input, start,
                       NumberLoop(input, IF CharAt(input, start) = "-" THEN start + 1
                                         ELSE start, FALSE)),
             start),
       NumberLoop(input, IF CharAt(input, start) = "-" THEN start + 1 ELSE start, FALSE))

\* Tokenizer.readString, with close the position of the closing quote or the
\* end of the input
StringRead(input, start, close) ==
  IF close >= Len(input) THEN ReadError("Unterminated string", start)
  ELSE Read(Token("STRING", Substring(input, start + 1, close), start), close + 1)

\* while (this.pos < this.input.length && this.input[this.pos] !== '"')
RECURSIVE StringLoop(_, _)
StringLoop(input, pos) ==
  IF pos < Len(input) /\ input[pos + 1] /= "\"" THEN StringLoop(input, pos + 1) ELSE pos

readString(input, start) == StringRead(input, start, StringLoop(input, start + 1))

\* remaining.match(/^(\$?)([A-Z]+)(\$?)(\d+)/i): the position after the match,
\* or -1 when there is none
CellRefDigits(input, rowStart) ==
  IF RunEnd(input, rowStart, Digits) > rowStart THEN RunEnd(input, rowStart, Digits) ELSE -1

CellRefRow(input, colStart, colEnd) ==
  IF colEnd = colStart THEN -1
  ELSE CellRefDigits(input, IF CharAt(input, colEnd) = "$" THEN colEnd + 1 ELSE colEnd)

CellRefCol(input, colStart) == CellRefRow(input, colStart, RunEnd(input, colStart, LetterChars))

cellRefMatch(input, pos) ==
  CellRefCol(input, IF CharAt(input, pos) = "$" THEN pos + 1 ELSE pos)

\* Tokenizer.readIdentifierOrCellRef
readIdentifierOrCellRef(input, start) ==
  IF cellRefMatch(input, start) /= -1
  THEN Read(Token("CELL_REF", Substring(input, start, cellRefMatch(input, start)), start),
            cellRefMatch(input, start))
  ELSE Read(Token("IDENTIFIER",
                  Substring(input, start, RunEnd(input, start, IdentifierChars)), start),
            RunEnd(input, start, IdentifierChars))

\* the Tokenizer while it runs: pos, the tokens pushed, the ParseError thrown
\* (error = "" when none), and whether tokenize has returned
TokenizerAt(pos, tokens) ==
  [pos |-> pos, tokens |-> tokens, error |-> "", errorPos |-> 0, done |-> FALSE]

\* new Tokenizer(input), before tokenize
NewTokenizer == TokenizerAt(0, <<>>)

\* tokens.push(this.readX()); continue, or the throw of the reader
PushRead(t, read) ==
  IF read.error /= ""
  THEN [t EXCEPT !.error = read.error, !.errorPos = read.errorPos]
  ELSE TokenizerAt(read.pos, Append(t.tokens, read.token))

\* tokens.push({ type, value: char, pos: this.pos }); this.pos++; continue
PushChar(t, type, char) == TokenizerAt(t.pos + 1, Append(t.tokens, Token(type, <<char>>, t.pos)))

\* one iteration of the while loop of tokenize on the character char at t.pos
ScanChar(input, t, char) ==
  CASE char \in SpaceChars -> TokenizerAt(t.pos + 1, t.tokens)
    [] char \in Digits \/ (char = "-" /\ CharAt(input, t.pos + 1) \in Digits) ->
         PushRead(t, readNumber(input, t.pos))
    [] char = "\"" -> PushRead(t, readString(input, t.pos))
    [] char \in OperatorChars /\ ~(char = "-" /\ CharAt(input, t.pos + 1) \in Digits) ->
         PushChar(t, "OPERATOR", char)
    [] char = "(" -> PushChar(t, "LPAREN", char)
    [] char = ")" -> PushChar(t, "RPAREN", char)
    [] char = "," -> PushChar(t, "COMMA", char)
    [] char = ":" -> PushChar(t, "COLON", char)
    [] char = "$" \/ char \in LetterChars -> PushRead(t, readIdentifierOrCellRef(input, t.pos))
    [] OTHER -> [t EXCEPT !.error = "Unexpected character: " \o char, !.errorPos = t.pos]

\* one step of tokenize: the test of the while loop, then its body or the
\* push of the EOF token and the return
TokenizeStep(input, t) ==
  IF t.pos < Len(input) THEN ScanChar(input, t, CharAt(input, t.pos))
  ELSE [t EXCEPT !.tokens = Append(t.tokens, Token("EOF", <<>>, t.pos)), !.done = TRUE]

\* tokenize does not return
Diverges == "diverges"

\* Tokenizer.tokenize as a function of its input: the tokens returned, the
\* ParseError thrown, or Diverges when an iteration pushes a token and leaves
\* pos where it was, so that the loop repeats that iteration without end
RECURSIVE TokenizeLoop(_, _)
RECURSIVE TokenizeNext(_, _, _)
TokenizeLoop(input, t) ==
  IF t.done \/ t.error /= "" THEN t ELSE TokenizeNext(input, t, TokenizeStep(input, t))

TokenizeNext(input, t, next) ==
  IF ~next.done /\ next.error = "" /\ next.pos = t.pos
  THEN [t EXCEPT !.error = Diverges]
  ELSE TokenizeLoop(input, next)

tokenize(input) == TokenizeLoop(trim(input), NewTokenizer)

\* --------------------------------------------------------------------- Parser
\* the digit a character stands for
DigitValue(char) == CHOOSE i \in 0 .. 9 : ToString(i) = char

\* the number a run of digits writes, after the number acc of the digits before
RECURSIVE DigitsValue(_, _)
DigitsValue(chars, acc) ==
  IF chars = <<>> THEN acc ELSE DigitsValue(Tail(chars), acc * 10 + DigitValue(Head(chars)))

RECURSIVE PowerOfTen(_)
PowerOfTen(k) == IF k = 0 THEN 1 ELSE 10 * PowerOfTen(k - 1)

\* parseFloat of digits with at most one '.', the '.' at index dot of the
\* text, or past its end when there is none
UnsignedNumber(chars, dot) ==
  Ratio(DigitsValue(SubSeq(chars, 1, dot - 1) \o SubSeq(chars, dot + 1, Len(chars)), 0),
        PowerOfTen(IF dot > Len(chars) THEN 0 ELSE Len(chars) - dot))

\* parseFloat(token.value) on the value of a NUMBER token
tokenNumber(chars) ==
  IF chars /= <<>> /\ Head(chars) = "-"
  THEN Minus(Num(0), UnsignedNumber(Tail(chars), RunEnd(Tail(chars), 0, Digits) + 1))
  ELSE UnsignedNumber(chars, RunEnd(chars, 0, Digits) + 1)

\* name.toUpperCase() on the characters of a name
UpperChar(char) ==
  IF char \in Range(LowerLetters)
  THEN Letters[CHOOSE i \in 1 .. 26 : LowerLetters[i] = char]
  ELSE char

UpperCased(chars) == [i \in 1 .. Len(chars) |-> UpperChar(chars[i])]

\* a string value of an AST node: its characters
Text(chars) == [t |-> "string", n |-> 0, d |-> 1, s |-> "", a |-> chars]

\* the nodes parsePrimary builds from a NUMBER and from a STRING token
NumberLiteral(chars) == [type |-> "Number", value |-> tokenNumber(chars)]

StringLiteral(chars) == [type |-> "String", value |-> Text(chars)]

\* what a production returns: the node and the parser's pos after it, or the
\* ParseError it throws with its position
Parsed(node, pos) == [node |-> node, pos |-> pos, error |-> "", errorPos |-> 0]

ParseFailed(message, errorPos) ==
  [node |-> NumberNode(0), pos |-> 0, error |-> message, errorPos |-> errorPos]

\* Parser.current
Current(tokens, pos) == IF pos < Len(tokens) THEN tokens[pos + 1] ELSE tokens[Len(tokens)]

\* current() is the OPERATOR token of one of the operators
AtOperator(tokens, pos, operators) ==
  /\ Current(tokens, pos).type = "OPERATOR"
  /\ Join(Current(tokens, pos).value) \in operators

\* Parser.consume(expected) followed by the return of node
ConsumeThen(tokens, pos, expected, node) ==
  IF Current(tokens, pos).type /= expected
  THEN ParseFailed("Expected " \o expected \o ", got " \o Current(tokens, pos).type,
                   Current(tokens, pos).pos)
  ELSE Parsed(node, pos + 1)

RECURSIVE parseExpression(_, _)
RECURSIVE ExpressionLoop(_, _)
RECURSIVE ExpressionRight(_, _, _, _)
RECURSIVE parseTerm(_, _)
RECURSIVE TermLoop(_, _)
RECURSIVE TermRight(_, _, _, _)
RECURSIVE parseFactor(_, _)
RECURSIVE FactorRest(_, _)
RECURSIVE FactorRight(_, _, _)
RECURSIVE parsePrimary(_, _)
RECURSIVE ParenthesisEnd(_, _)
RECURSIVE ArgumentsLoop(_, _, _, _)

\* a parseFactor that folds a chain of '^' from the left
RECURSIVE FactorRest_LeftAssociative(_, _)
RECURSIVE FactorLeft(_, _, _)
FactorRest_LeftAssociative(tokens, left) ==
  IF left.error /= "" THEN left
  ELSE IF AtOperator(tokens, left.pos, {"^"})
       THEN FactorLeft(tokens, left, parsePrimary(tokens, left.pos + 1))
       ELSE left

FactorLeft(tokens, left, right) ==
  IF right.error /= "" THEN right
  ELSE FactorRest(tokens, Parsed(BinaryOpNode("^", left.node, right.node), right.pos))

\* Parser.parseExpression: term (("+"|"-") term)*
parseExpression(tokens, pos) == ExpressionLoop(tokens, parseTerm(tokens, pos))

ExpressionLoop(tokens, left) ==
  IF left.error /= "" THEN left
  ELSE IF AtOperator(tokens, left.pos, {"+", "-"})
       THEN ExpressionRight(tokens, left, Join(Current(tokens, left.pos).value),
                            parseTerm(tokens, left.pos + 1))
       ELSE left

ExpressionRight(tokens, left, operator, right) ==
  IF right.error /= "" THEN right
  ELSE ExpressionLoop(tokens, Parsed(BinaryOpNode(operator, left.node, right.node), right.pos))

\* Parser.parseTerm: factor (("*"|"/") factor)*
parseTerm(tokens, pos) == TermLoop(tokens, parseFactor(tokens, pos))

TermLoop(tokens, left) ==
  IF left.error /= "" THEN left
  ELSE IF AtOperator(tokens, left.pos, {"*", "/"})
       THEN TermRight(tokens, left, Join(Current(tokens, left.pos).value),
                      parseFactor(tokens, left.pos + 1))
       ELSE left

TermRight(tokens, left, operator, right) ==
  IF right.error /= "" THEN right
  ELSE TermLoop(tokens, Parsed(BinaryOpNode(operator, left.node, right.node), right.pos))

\* Parser.parseFactor: power ("^" factor)?, and parsePower, which is
\* parsePrimary
parseFactor(tokens, pos) == FactorRest(tokens, parsePrimary(tokens, pos))

FactorRest(tokens, left) ==
  IF left.error /= "" THEN left
  ELSE IF AtOperator(tokens, left.pos, {"^"})
       THEN FactorRight(tokens, left, parseFactor(tokens, left.pos + 1))
       ELSE left

FactorRight(tokens, left, right) ==
  IF right.error /= "" THEN right
  ELSE Parsed(BinaryOpNode("^", left.node, right.node), right.pos)

\* Parser.parsePrimary
parsePrimary(tokens, pos) ==
  CASE Current(tokens, pos).type = "NUMBER" ->
         Parsed(NumberLiteral(Current(tokens, pos).value), pos + 1)
    [] Current(tokens, pos).type = "STRING" ->
         Parsed(StringLiteral(Current(tokens, pos).value), pos + 1)
    [] Current(tokens, pos).type = "LPAREN" ->
         ParenthesisEnd(tokens, parseExpression(tokens, pos + 1))
    [] Current(tokens, pos).type = "CELL_REF" ->
         IF Current(tokens, pos + 1).type = "COLON"
         THEN ConsumeThen(tokens, pos + 2, "CELL_REF",
                          RangeRefNode(Current(tokens, pos).value,
                                       Current(tokens, pos + 2).value))
         ELSE Parsed(CellRefNode(Current(tokens, pos).value), pos + 1)
    [] Current(tokens, pos).type = "IDENTIFIER" ->
         IF Current(tokens, pos + 1).type = "LPAREN"
         THEN IF Current(tokens, pos + 2).type /= "RPAREN"
              THEN ArgumentsLoop(tokens, UpperCased(Current(tokens, pos).value), <<>>,
                                 parseExpression(tokens, pos + 2))
              ELSE Parsed(FunctionCallNode(UpperCased(Current(tokens, pos).value), <<>>), pos + 3)
         ELSE ParseFailed("Unexpected identifier: " \o Join(Current(tokens, pos).value),
                          Current(tokens, pos).pos)
    [] OTHER -> ParseFailed("Unexpected token: " \o Join(Current(tokens, pos).value),
                            Current(tokens, pos).pos)

\* this.consume('RPAREN') after the expression in parentheses
ParenthesisEnd(tokens, expr) ==
  IF expr.error /= "" THEN expr ELSE ConsumeThen(tokens, expr.pos, "RPAREN", expr.node)

\* args.push(this.parseExpression()), then the while loop over COMMA and
\* this.consume('RPAREN')
ArgumentsLoop(tokens, name, args, arg) ==
  IF arg.error /= "" THEN arg
  ELSE IF Current(tokens, arg.pos).type = "COMMA"
       THEN ArgumentsLoop(tokens, name, Append(args, arg.node),
                          parseExpression(tokens, arg.pos + 1))
       ELSE ConsumeThen(tokens, arg.pos, "RPAREN",
                        FunctionCallNode(name, Append(args, arg.node)))

\* a parse that returns whatever parseExpression returned
ParseEnd_NoEOFTest(tokens, result) == result

\* if (this.current().type !== 'EOF') throw, after parseExpression returned
ParseEnd(tokens, result) ==
  IF result.error /= "" THEN result
  ELSE IF Current(tokens, result.pos).type /= "EOF"
       THEN ParseFailed("Unexpected token: " \o Join(Current(tokens, result.pos).value),
                        Current(tokens, result.pos).pos)
       ELSE result

\* Parser.parse on the tokens of tokenize: the AST, or the ParseError
parse(tokens) == ParseEnd(tokens, parseExpression(tokens, 0))

\* what parseFormula does: the AST in node, the ParseError of the tokenizer
\* or the parser in error and errorPos, or error = Diverges when tokenize does
\* not return
ParseTokens(t) ==
  IF t.error /= "" THEN ParseFailed(t.error, t.errorPos) ELSE parse(t.tokens)

\* formula.trim().startsWith('=') ? formula.trim().substring(1) : formula.trim()
cleanFormula(formula) ==
  IF trim(formula) /= <<>> /\ Head(trim(formula)) = "=" THEN Tail(trim(formula))
  ELSE trim(formula)

\* parseFormula on the characters of a formula text
parseFormulaText(formula) == ParseTokens(tokenize(cleanFormula(formula)))

\* ------------------------------------------------------- lib/a1.ts: CellRef
\* letterToCol on the letters of a column, after the value result of the
\* letters before: result * 26 + (charCode - 64), and result - 1 at the end
RECURSIVE LetterLoop(_, _)
LetterLoop(letters, result) ==
  IF letters = <<>> THEN result - 1
  ELSE LetterLoop(Tail(letters),
                  result * 26 + (CHOOSE i \in 1 .. 26 : Letters[i] = UpperChar(Head(letters))))

letterToCol(letters) == LetterLoop(letters, 0)

\* colToLetter: the while loop over num, with the letters found so far
RECURSIVE ColLoop(_, _)
ColLoop(num, result) ==
  IF num > 0 THEN ColLoop((num - 1) \div 26, <<Letters[((num - 1) % 26) + 1]>> \o result)
  ELSE result

\* colToLetter that takes the next digit from num instead of num - 1
RECURSIVE ColLoop_NoCarry(_, _)
ColLoop_NoCarry(num, result) ==
  IF num > 0 THEN ColLoop_NoCarry(num \div 26, <<Letters[((num - 1) % 26) + 1]>> \o result)
  ELSE result

colToLetter_NoCarry(col) == ColLoop_NoCarry(col + 1, <<>>)

colToLetter(col) == ColLoop(col + 1, <<>>)

\* parseCellRef returns null
NullRef == [col |-> -1, row |-> -1, absCol |-> FALSE, absRow |-> FALSE]

\* parseCellRef once /^(\$?)([A-Z]+)(\$?)(\d+)$/i has matched: the column
\* letters are ref[colStart + 1 .. colEnd] and the row digits start at rowStart
CellRefOf(ref, colStart, colEnd, rowStart) ==
  IF DigitsValue(Substring(ref, rowStart, Len(ref)), 0) - 1 < 0
       \/ letterToCol(Substring(ref, colStart, colEnd)) < 0
  THEN NullRef
  ELSE [col |-> letterToCol(Substring(ref, colStart, colEnd)),
        row |-> DigitsValue(Substring(ref, rowStart, Len(ref)), 0) - 1,
        absCol |-> colStart = 1,
        absRow |-> rowStart = colEnd + 1]

\* parseCellRef
parseCellRef(ref) ==
  IF cellRefMatch(ref, 0) /= Len(ref) THEN NullRef
  ELSE CellRefOf(ref,
                 IF CharAt(ref, 0) = "$" THEN 1 ELSE 0,
                 RunEnd(ref, IF CharAt(ref, 0) = "$" THEN 1 ELSE 0, LetterChars),
                 IF CharAt(ref, RunEnd(ref, IF CharAt(ref, 0) = "$" THEN 1 ELSE 0,
                                       LetterChars)) = "$"
                 THEN RunEnd(ref, IF CharAt(ref, 0) = "$" THEN 1 ELSE 0, LetterChars) + 1
                 ELSE RunEnd(ref, IF CharAt(ref, 0) = "$" THEN 1 ELSE 0, LetterChars))

\* Number.prototype.toString of a whole number
RECURSIVE NaturalChars(_)
NaturalChars(n) ==
  IF n < 10 THEN <<ToString(n)>> ELSE NaturalChars(n \div 10) \o <<ToString(n % 10)>>

IntegerChars(i) == IF i < 0 THEN <<"-">> \o NaturalChars(-i) ELSE NaturalChars(i)

\* the digits after the '.', by long division of the remainder rem by d
RECURSIVE FractionChars(_, _)
FractionChars(rem, d) ==
  IF rem = 0 THEN <<>>
  ELSE <<ToString((rem * 10) \div d)>> \o FractionChars((rem * 10) % d, d)

\* Number.prototype.toString of the number n/d whose decimal writing ends
NumberChars(v) ==
  IF v.d = 1 THEN IntegerChars(v.n)
  ELSE (IF v.n < 0 THEN <<"-">> ELSE <<>>)
         \o NaturalChars(Abs(v.n) \div v.d) \o <<".">> \o FractionChars(Abs(v.n) % v.d, v.d)

\* cellRefToA1
cellRefToA1(ref) ==
  (IF ref.absCol THEN <<"$">> ELSE <<>>) \o colToLetter(ref.col)
    \o (IF ref.absRow THEN <<"$">> ELSE <<>>) \o IntegerChars(ref.row + 1)

\* adjustRefForFill
adjustRefForFill(ref, deltaRow, deltaCol) ==
  [col |-> IF ref.absCol THEN ref.col ELSE ref.col + deltaCol,
   row |-> IF ref.absRow THEN ref.row ELSE ref.row + deltaRow,
   absCol |-> ref.absCol,
   absRow |-> ref.absRow]

\* ---------------------------------------------------------------- lib/fill.ts
\* case 'CellRef' of adjustASTReferences
AdjustCellRef(node, deltaRow, deltaCol) ==
  IF parseCellRef(node.cellRef) = NullRef THEN node
  ELSE CellRefNode(cellRefToA1(adjustRefForFill(parseCellRef(node.cellRef),
                                                deltaRow, deltaCol)))

\* case 'RangeRef' of adjustASTReferences
AdjustRangeRef(node, deltaRow, deltaCol) ==
  IF parseCellRef(node.start) = NullRef \/ parseCellRef(node.end) = NullRef THEN node
  ELSE RangeRefNode(cellRefToA1(adjustRefForFill(parseCellRef(node.start),
                                                 deltaRow, deltaCol)),
                    cellRefToA1(adjustRefForFill(parseCellRef(node.end),
                                                 deltaRow, deltaCol)))

\* adjustASTReferences
RECURSIVE adjustASTReferences(_, _, _)
adjustASTReferences(node, deltaRow, deltaCol) ==
  CASE node.type = "CellRef" -> AdjustCellRef(node, deltaRow, deltaCol)
    [] node.type = "RangeRef" -> AdjustRangeRef(node, deltaRow, deltaCol)
    [] node.type = "BinaryOp" ->
         BinaryOpNode(node.operator,
                      adjustASTReferences(node.left, deltaRow, deltaCol),
                      adjustASTReferences(node.right, deltaRow, deltaCol))
    [] node.type = "UnaryOp" ->
         [node EXCEPT !.operand = adjustASTReferences(node.operand, deltaRow, deltaCol)]
    [] node.type = "FunctionCall" ->
         FunctionCallNode(node.name,
                          [i \in 1 .. Len(node.args) |->
                             adjustASTReferences(node.args[i], deltaRow, deltaCol)])
    [] OTHER -> node

\* opPrecedence[op] || 0
opPrecedence(op) ==
  CASE op = "^" -> 3
    [] op \in {"*", "/"} -> 2
    [] op \in {"+", "-"} -> 1
    [] OTHER -> 0

\* needsParentheses
needsParentheses(operand, parentOp) ==
  IF operand.type /= "BinaryOp" THEN FALSE
  ELSE opPrecedence(operand.operator) < opPrecedence(parentOp)

\* `(${text})` when parens, text otherwise
Parenthesised(parens, text) == IF parens THEN <<"(">> \o text \o <<")">> ELSE text

\* args.map(arg => astToString(arg)).join(',') over rendered arguments
RECURSIVE JoinWithCommas(_)
JoinWithCommas(texts) ==
  IF texts = <<>> THEN <<>>
  ELSE IF Len(texts) = 1 THEN Head(texts)
       ELSE Head(texts) \o <<",">> \o JoinWithCommas(Tail(texts))

\* astToString
RECURSIVE astToString(_)
astToString(node) ==
  CASE node.type = "Number" -> NumberChars(node.value)
    [] node.type = "String" -> <<"\"">> \o node.value.a \o <<"\"">>
    [] node.type = "CellRef" -> node.cellRef
    [] node.type = "RangeRef" -> node.start \o <<":">> \o node.end
    [] node.type = "BinaryOp" ->
         Parenthesised(needsParentheses(node.left, node.operator), astToString(node.left))
           \o <<node.operator>>
           \o Parenthesised(needsParentheses(node.right, node.operator),
                            astToString(node.right))
    [] node.type = "UnaryOp" -> <<node.operator>> \o astToString(node.operand)
    [] node.type = "FunctionCall" ->
         node.name \o <<"(">>
           \o JoinWithCommas([i \in 1 .. Len(node.args) |-> astToString(node.args[i])])
           \o <<")">>
    [] OTHER -> <<>>

\* const adjustedAst of adjustFormulaForFill; none when parseFormula threw
AdjustedAst(parsed, deltaRow, deltaCol) ==
  IF parsed.error /= "" THEN NumberNode(0)
  ELSE adjustASTReferences(parsed.node, deltaRow, deltaCol)

\* an adjustFormulaForFill whose catch returns the empty formula
AdjustParsed_EmptyOnError(formula, parsed, deltaRow, deltaCol) ==
  IF parsed.error /= "" THEN <<"=">>
  ELSE <<"=">> \o astToString(adjustASTReferences(parsed.node, deltaRow, deltaCol))

\* adjustFormulaForFill once parseFormula returned or threw
AdjustParsed(formula, parsed, deltaRow, deltaCol) ==
  IF parsed.error /= "" THEN formula
  ELSE <<"=">> \o astToString(adjustASTReferences(parsed.node, deltaRow, deltaCol))

\* adjustFormulaForFill on a formula text on which parseFormula returns or throws
adjustFormulaForFill(formula, deltaRow, deltaCol) ==
  AdjustParsed(formula, parseFormulaText(formula), deltaRow, deltaCol)

\* ------------------------------------------- the formula texts under study
\* the characters of the short texts
ShortChars == {"1", "-", "(", ")", "A", "$", "\"", ".", " ", "#", ",", ":", "="}

\* every text of at most MaxLen of these characters
ShortTexts == SeqsUpTo(ShortChars, MaxLen)

\* three operands and two operators, without parentheses, with the first two
\* operands in parentheses, and with the last two in parentheses
Flat(x, op1, y, op2, z) == x \o <<op1>> \o y \o <<op2>> \o z

LeftGrouped(x, op1, y, op2, z) == <<"(">> \o x \o <<op1>> \o y \o <<")", op2>> \o z

RightGrouped(x, op1, y, op2, z) == x \o <<op1, "(">> \o y \o <<op2>> \o z \o <<")">>

PrecedenceTexts ==
  UNION { { <<"=">> \o Flat(x, op1, y, op2, z),
            <<"=">> \o LeftGrouped(x, op1, y, op2, z),
            <<"=">> \o RightGrouped(x, op1, y, op2, z) } :
          x \in {<<"A", "1">>, <<"2">>},
          y \in {<<"B", "1">>, <<"3">>},
          z \in {<<"C", "1">>, <<"2">>},
          op1 \in OperatorChars, op2 \in OperatorChars }

\* x-y, x -y, x- y and x - y over completed operands: a number, a string, a
\* cell reference and a closing parenthesis
LeftOperands == {<<"2">>, <<"A", "1">>, <<"\"", "a", "\"">>, <<"(", "1", ")">>}

RightOperands == {<<"3">>, <<"B", "1">>, <<"1", ".", "5">>, <<"(", "1", ")">>}

Spacings == {<<>>, <<" ">>}

SubtractionTexts ==
  { <<"=">> \o x \o before \o <<"-">> \o after \o y :
      x \in LeftOperands, y \in RightOperands, before \in Spacings, after \in Spacings }

\* formulas a fill copies: relative and absolute references, ranges, calls,
\* lower case, blanks, parentheses, decimals, the last column before AA
FillTexts ==
  { <<"=", "A", "1", "+", "B", "1">>,
    <<"=", "$", "A", "1", "+", "B", "2">>,
    <<"=", "A", "$", "1", "*", "$", "B", "$", "2">>,
    <<"=", "S", "U", "M", "(", "A", "1", ":", "B", "2", ")">>,
    <<"=", "s", "u", "m", "(", "$", "A", "1", ":", "B", "$", "2", ",", "C", "1", ")">>,
    <<"=", "M", "A", "X", "(", ")">>,
    <<"=", "a", "1">>,
    <<"=", " ", "A", "1", " ", "+", " ", "1">>,
    <<"=", "(", "A", "1", ")">>,
    <<"=", "Z", "1", "+", "A", "A", "1">>,
    <<"=", "1", ".", "5", "0", "+", "A", "1">>,
    <<"=", "\"", "a", " ", "b", "\"">>,
    <<"=", "A", "0", "+", "A", "1">>,
    <<"A", "1", "+", "1">>,
    <<"=", "A", "1", "+">>,
    <<"=", "S", "U", "M", "(", "A", "1", ":", ")">> }

ParseTexts == ShortTexts \cup PrecedenceTexts \cup SubtractionTexts \cup FillTexts

\* the row and column deltas of a fill
Deltas == {-1, 0, 1, 2}

\* parsing.parsed and parsing.fill before the calls
NoParse == Parsed(NumberNode(0), 0)

NoFill == [deltaRow |-> 0, deltaCol |-> 0, adjustedAst |-> NumberNode(0), text |-> <<>>]

PInit ==
  /\ nodes = EmptyMap
  /\ last = NoCall
  /\ cells = EmptyMap
  /\ edited = NoEdit
  /\ edits = 0
  /\ evaluation = NoEvaluation
  /\ parsing \in { [formula |-> formula, tokenizer |-> NewTokenizer,
                    parsed |-> NoParse, fill |-> NoFill] : formula \in ParseTexts }
  /\ history = NoHistory
  /\ storage = NoStorage
  /\ editing = NoEditing

\* one iteration of the while loop of tokenize, or its return, on the input
\* parseFormula hands to new Tokenizer
PScan ==
  /\ last \in {NoCall, "tokenize"}
  /\ ~parsing.tokenizer.done
  /\ parsing.tokenizer.error = ""
  /\ Len(parsing.tokenizer.tokens) < MaxTokens
  /\ parsing' = [parsing EXCEPT
                   !.tokenizer = TokenizeStep(trim(cleanFormula(parsing.formula)), @)]
  /\ last' = "tokenize"
  /\ UNCHANGED <<nodes, cells, edited, edits, evaluation, history, storage, editing>>

\* new Parser(tokens).parse() on the tokens tokenize returned
PParse ==
  /\ last = "tokenize"
  /\ parsing.tokenizer.done
  /\ parsing' = [parsing EXCEPT !.parsed = parse(parsing.tokenizer.tokens)]
  /\ last' = "parse"
  /\ UNCHANGED <<nodes, cells, edited, edits, evaluation, history, storage, editing>>

\* adjustFormulaForFill(formula, deltaRow, deltaCol) on a formula on which
\* parseFormula returned or threw
PAdjust ==
  /\ \/ last = "parse"
     \/ last = "tokenize" /\ parsing.tokenizer.error /= ""
  /\ \E deltaRow \in Deltas, deltaCol \in Deltas :
       parsing' = [parsing EXCEPT
                     !.fill = [deltaRow |-> deltaRow, deltaCol |-> deltaCol,
                               adjustedAst |-> AdjustedAst(parseFormulaText(parsing.formula),
                                                           deltaRow, deltaCol),
                               text |-> adjustFormulaForFill(parsing.formula,
                                                             deltaRow, deltaCol)]]
  /\ last' = "adjustFormulaForFill"
  /\ UNCHANGED <<nodes, cells, edited, edits, evaluation, history, storage, editing>>

PNext == PScan \/ PParse \/ PAdjust

SpecParse == PInit /\ [][PNext]_vars

\* the while loop of tokenize keeps running while its test holds
SpecParseFair == SpecParse /\ WF_vars(PScan)

\* --------------------------------------------- what the parser claims speak of
\* Parser.parse has returned or thrown on the tokens of the formula
ParseDone == last = "parse"

\* the types of the tokens the parser was handed
TokenTypes == [i \in 1 .. Len(parsing.tokenizer.tokens) |-> parsing.tokenizer.tokens[i].type]

OperandTypes == {"NUMBER", "CELL_REF"}

\* the node of the operand token at index i, and the operator of the token at i
OperandAt(i) ==
  IF parsing.tokenizer.tokens[i].type = "NUMBER"
  THEN NumberLiteral(parsing.tokenizer.tokens[i].value)
  ELSE CellRefNode(parsing.tokenizer.tokens[i].value)

OperatorAt(i) == Join(parsing.tokenizer.tokens[i].value)

\* how tight an operator binds: '^' above '*' and '/', these above '+' and '-'
Binding(op) == IF op = "^" THEN 3 ELSE IF op \in {"*", "/"} THEN 2 ELSE 1

\* in x op1 y op2 z the second operator takes y: it binds tighter, or both
\* are '^', which associates to the right
SecondTakesMiddle(op1, op2) ==
  Binding(op2) > Binding(op1) \/ (op1 = "^" /\ op2 = "^")

\* the tokens are x op1 y op2 z, ( x op1 y ) op2 z, or x op1 ( y op2 z )
FlatTokens ==
  /\ Len(TokenTypes) = 6
  /\ {TokenTypes[1], TokenTypes[3], TokenTypes[5]} \subseteq OperandTypes
  /\ TokenTypes[2] = "OPERATOR" /\ TokenTypes[4] = "OPERATOR"

LeftGroupedTokens ==
  /\ Len(TokenTypes) = 8
  /\ {TokenTypes[2], TokenTypes[4], TokenTypes[7]} \subseteq OperandTypes
  /\ TokenTypes[1] = "LPAREN" /\ TokenTypes[5] = "RPAREN"
  /\ TokenTypes[3] = "OPERATOR" /\ TokenTypes[6] = "OPERATOR"

RightGroupedTokens ==
  /\ Len(TokenTypes) = 8
  /\ {TokenTypes[1], TokenTypes[4], TokenTypes[6]} \subseteq OperandTypes
  /\ TokenTypes[3] = "LPAREN" /\ TokenTypes[7] = "RPAREN"
  /\ TokenTypes[2] = "OPERATOR" /\ TokenTypes[5] = "OPERATOR"

\* the two groupings of three operands
GroupedLeft(x, op1, y, op2, z) == BinaryOpNode(op2, BinaryOpNode(op1, x, y), z)

GroupedRight(x, op1, y, op2, z) == BinaryOpNode(op1, x, BinaryOpNode(op2, y, z))

\* C21: for a formula made of operands, binary operators and parentheses the
\* parser builds the AST in which '^' binds tighter than '*' and '/', which bind
\* tighter than '+' and '-'; '+', '-', '*' and '/' associate to the left and
\* '^' to the right, and a sub-expression in parentheses is one operand
C21_Precedence ==
  ParseDone =>
    /\ FlatTokens =>
         /\ parsing.parsed.error = ""
         /\ parsing.parsed.node =
              IF SecondTakesMiddle(OperatorAt(2), OperatorAt(4))
              THEN GroupedRight(OperandAt(1), OperatorAt(2), OperandAt(3),
                                OperatorAt(4), OperandAt(5))
              ELSE GroupedLeft(OperandAt(1), OperatorAt(2), OperandAt(3),
                               OperatorAt(4), OperandAt(5))
    /\ LeftGroupedTokens =>
         /\ parsing.parsed.error = ""
         /\ parsing.parsed.node =
              GroupedLeft(OperandAt(2), OperatorAt(3), OperandAt(4),
                          OperatorAt(6), OperandAt(7))
    /\ RightGroupedTokens =>
         /\ parsing.parsed.error = ""
         /\ parsing.parsed.node =
              GroupedRight(OperandAt(1), OperatorAt(2), OperandAt(4),
                           OperatorAt(5), OperandAt(6))

C21_Witness ==
  /\ ParseDone
  /\ parsing.formula = <<"=", "2", "^", "3", "^", "2">>
  /\ parsing.parsed.node =
       BinaryOpNode("^", NumberNode(2), BinaryOpNode("^", NumberNode(3), NumberNode(2)))

\* the AST as the evaluator reads it: every string of the parser's AST, kept
\* as its characters, becomes the string itself
RECURSIVE EvaluatorAst(_)
EvaluatorAst(node) ==
  CASE node.type = "String" -> StringNode(Join(node.value.a))
    [] node.type = "CellRef" -> CellRefNode(Join(node.cellRef))
    [] node.type = "RangeRef" -> RangeRefNode(Join(node.start), Join(node.end))
    [] node.type = "BinaryOp" ->
         BinaryOpNode(node.operator, EvaluatorAst(node.left), EvaluatorAst(node.right))
    [] node.type = "FunctionCall" ->
         FunctionCallNode(Join(node.name),
                          [i \in 1 .. Len(node.args) |-> EvaluatorAst(node.args[i])])
    [] OTHER -> node

\* the cells the parsed formulas are evaluated over
ParseGetter == [ref \in RefTexts |-> IF ref = "A1" THEN Num(5) ELSE Num(2)]

\* the value evaluate returns for a parsed node
ValueOf(node) == evaluate(EvaluatorAst(node), ParseGetter, <<>>).value

\* a token that completes an operand
CompletesOperand(token) == token.type \in {"NUMBER", "STRING", "CELL_REF", "RPAREN"}

\* no NUMBER token that begins with '-' follows a token that completes an operand
NoSignAfterOperand(tokens) ==
  \A i \in 2 .. Len(tokens) :
    (tokens[i].type = "NUMBER" /\ Head(tokens[i].value) = "-")
      => ~CompletesOperand(tokens[i - 1])

\* the formula is x, blanks, '-', blanks, y, and it parses to the subtraction of
\* y from x, which evaluates to x minus y when both are numbers
ParsesAsSubtraction(x, y) ==
  /\ parsing.parsed.error = ""
  /\ parsing.parsed.node =
       BinaryOpNode("-", parseFormulaText(x).node, parseFormulaText(y).node)
  /\ (ValueOf(parseFormulaText(x).node).t = "number"
        /\ ValueOf(parseFormulaText(y).node).t = "number")
       => ValueOf(parsing.parsed.node) =
            Minus(ValueOf(parseFormulaText(x).node), ValueOf(parseFormulaText(y).node))

\* C22: the tokenizer never treats a '-' that follows a completed operand (a
\* number, a string, a cell reference or a closing parenthesis) as the start
\* of a NUMBER token: it emits the subtraction OPERATOR, so for operands x and
\* y the texts x-y, x -y and x - y all parse to the binary subtraction of y
\* from x and evaluate to x minus y
C22_SubtractionAfterOperand ==
  /\ NoSignAfterOperand(parsing.tokenizer.tokens)
  /\ ParseDone =>
       \A x \in LeftOperands, y \in RightOperands, before \in Spacings, after \in Spacings :
         parsing.formula = <<"=">> \o x \o before \o <<"-">> \o after \o y
           => ParsesAsSubtraction(x, y)

\* tokenize has returned its tokens or thrown a ParseError
TokenizeEnded == parsing.tokenizer.done \/ parsing.tokenizer.error /= ""

\* the tokens tokenize returns end with the EOF token
EndsWithEOF ==
  parsing.tokenizer.done =>
    parsing.tokenizer.tokens[Len(parsing.tokenizer.tokens)].type = "EOF"

\* an iteration of the loop leaves pos further on, or ends tokenize
ScanAdvances ==
  PScan => \/ parsing'.tokenizer.pos > parsing.tokenizer.pos
           \/ parsing'.tokenizer.done
           \/ parsing'.tokenizer.error /= ""

\* every token begins with a character of the input: none is an IDENTIFIER
\* read from no character
NoEmptyIdentifier ==
  \A i \in 1 .. Len(parsing.tokenizer.tokens) :
    parsing.tokenizer.tokens[i].type = "IDENTIFIER" => parsing.tokenizer.tokens[i].value /= <<>>

\* C23: on every finite input tokenize terminates: it returns a token list
\* that ends with the EOF token or fails with a ParseError; a character that
\* begins no token, a '$' that starts no cell reference included, fails with the
\* unexpected-character error instead of being scanned again
C23_TokenizeTerminates ==
  /\ <>TokenizeEnded
  /\ []EndsWithEOF
  /\ [][ScanAdvances]_vars
  /\ []NoEmptyIdentifier

\* the tokens handed to the parser, and the token at index i as a text
ParserTokens == parsing.tokenizer.tokens

TokenText(i) == Join(ParserTokens[i].value)

\* the parser failed with this message at the position of the token at index i
FailsAt(message, i) ==
  /\ parsing.parsed.error = message
  /\ parsing.parsed.errorPos = ParserTokens[i].pos

\* C24: on every token sequence Parser.parse returns an AST after consuming
\* every token up to EOF, or fails with a ParseError that carries the position
\* of a token; it fails when tokens remain after a complete expression, when a
\* closing parenthesis or the end reference of a range is missing, when an
\* identifier is not followed by '(', and when no primary production matches
\* the current token
C24_ParseOrError ==
  ParseDone =>
    /\ parsing.parsed.error = "" =>
         /\ parsing.parsed.pos = Len(ParserTokens) - 1
         /\ ParserTokens[parsing.parsed.pos + 1].type = "EOF"
    /\ parsing.parsed.error /= "" =>
         \E i \in 1 .. Len(ParserTokens) : parsing.parsed.errorPos = ParserTokens[i].pos
    /\ (TokenTypes[1] \in {"NUMBER", "STRING"}
          /\ TokenTypes[2] \notin {"OPERATOR", "EOF"})
         => FailsAt("Unexpected token: " \o TokenText(2), 2)
    /\ (Len(TokenTypes) = 3 /\ TokenTypes[1] = "LPAREN" /\ TokenTypes[2] \in OperandTypes)
         => FailsAt("Expected RPAREN, got EOF", 3)
    /\ (Len(TokenTypes) >= 3 /\ TokenTypes[1] = "CELL_REF" /\ TokenTypes[2] = "COLON"
          /\ TokenTypes[3] /= "CELL_REF")
         => FailsAt("Expected CELL_REF, got " \o TokenTypes[3], 3)
    /\ (TokenTypes[1] = "IDENTIFIER" /\ TokenTypes[2] /= "LPAREN")
         => FailsAt("Unexpected identifier: " \o TokenText(1), 1)
    /\ TokenTypes[1] \in {"OPERATOR", "RPAREN", "COMMA", "COLON", "EOF"}
         => FailsAt("Unexpected token: " \o TokenText(1), 1)

C24_Witness ==
  /\ ParseDone
  /\ parsing.formula = <<"1", " ", "(">>
  /\ FailsAt("Unexpected token: (", 2)
  /\ parsing.parsed.errorPos = 2

\* ------------------------------------- what the Reference Adjuster claims speak of
\* adjustFormulaForFill has returned
Adjusted == last = "adjustFormulaForFill"

\* the formula of the call parses
Parseable == parseFormulaText(parsing.formula).error = ""

\* a reference text read part by part: markers, column letters, row digits
HasAbsCol(ref) == CharAt(ref, 0) = "$"

ColStart(ref) == IF HasAbsCol(ref) THEN 1 ELSE 0

ColEnd(ref) == RunEnd(ref, ColStart(ref), LetterChars)

HasAbsRow(ref) == CharAt(ref, ColEnd(ref)) = "$"

RowStart(ref) == IF HasAbsRow(ref) THEN ColEnd(ref) + 1 ELSE ColEnd(ref)

ColumnOf(ref) == letterToCol(Substring(ref, ColStart(ref), ColEnd(ref)))

RowOf(ref) == DigitsValue(Substring(ref, RowStart(ref), Len(ref)), 0) - 1

\* new is the reference old moved by the deltas: a reference text with the
\* markers of old, its column further by deltaCol unless the column is
\* absolute, its row further by deltaRow unless the row is absolute
RefShifted(old, new, deltaRow, deltaCol) ==
  /\ cellRefMatch(new, 0) = Len(new)
  /\ HasAbsCol(new) = HasAbsCol(old)
  /\ HasAbsRow(new) = HasAbsRow(old)
  /\ ColumnOf(new) = ColumnOf(old) + (IF HasAbsCol(old) THEN 0 ELSE deltaCol)
  /\ RowOf(new) = RowOf(old) + (IF HasAbsRow(old) THEN 0 ELSE deltaRow)

\* new is old with every cell reference and every range endpoint moved by the
\* deltas and nothing else changed
RECURSIVE AstShifted(_, _, _, _)
AstShifted(old, new, deltaRow, deltaCol) ==
  /\ new.type = old.type
  /\ CASE old.type = "CellRef" -> RefShifted(old.cellRef, new.cellRef, deltaRow, deltaCol)
       [] old.type = "RangeRef" ->
            /\ RefShifted(old.start, new.start, deltaRow, deltaCol)
            /\ RefShifted(old.end, new.end, deltaRow, deltaCol)
       [] old.type = "BinaryOp" ->
            /\ new.operator = old.operator
            /\ AstShifted(old.left, new.left, deltaRow, deltaCol)
            /\ AstShifted(old.right, new.right, deltaRow, deltaCol)
       [] old.type = "FunctionCall" ->
            /\ new.name = old.name
            /\ Len(new.args) = Len(old.args)
            /\ \A i \in 1 .. Len(old.args) :
                 AstShifted(old.args[i], new.args[i], deltaRow, deltaCol)
       [] OTHER -> new = old

\* C25: for every parseable formula and every row and column delta,
\* adjustFormulaForFill rewrites each cell reference and each range endpoint
\* on its own: its column is increased by the column delta unless it carries
\* the absolute-column marker, its row by the row delta unless it carries the
\* absolute-row marker, its '$' markers are kept, and numbers, strings,
\* operators and function names are unchanged
C25_ReferencesShifted ==
  (Adjusted /\ Parseable) =>
    AstShifted(parseFormulaText(parsing.formula).node, parsing.fill.adjustedAst,
               parsing.fill.deltaRow, parsing.fill.deltaCol)

\* the call moved nothing: both deltas are zero
ZeroDelta == parsing.fill.deltaRow = 0 /\ parsing.fill.deltaCol = 0

\* the AST with every reference in upper case, the form the renderer writes
RECURSIVE UpperRefs(_)
UpperRefs(node) ==
  CASE node.type = "CellRef" -> CellRefNode(UpperCased(node.cellRef))
    [] node.type = "RangeRef" -> RangeRefNode(UpperCased(node.start), UpperCased(node.end))
    [] node.type = "BinaryOp" ->
         BinaryOpNode(node.operator, UpperRefs(node.left), UpperRefs(node.right))
    [] node.type = "FunctionCall" ->
         FunctionCallNode(node.name, [i \in 1 .. Len(node.args) |-> UpperRefs(node.args[i])])
    [] OTHER -> node

\* C26: for every formula text f that parses, the text the Reference Adjuster
\* renders from parse(f) under a zero delta parses, and to an AST equal to
\* parse(f) up to the writing of literals: rendering never changes the
\* grouping of operators and never produces text that fails to parse
C26_RenderRoundTrip ==
  (Adjusted /\ Parseable /\ ZeroDelta) =>
    /\ parseFormulaText(parsing.fill.text).error = ""
    /\ UpperRefs(parseFormulaText(parsing.fill.text).node) =
         UpperRefs(parseFormulaText(parsing.formula).node)

\* C27: for every formula text f that contains only relative and absolute
\* references, adjustFormulaForFill(f, 0, 0) returns f itself
C27_ZeroShiftIdentity ==
  (Adjusted /\ ZeroDelta) => parsing.fill.text = parsing.formula

\* C28: for every formula text that fails to tokenize or parse, and for every
\* pair of deltas, adjustFormulaForFill returns the input text unchanged and
\* does not throw
C28_UnparseableUnchanged ==
  (Adjusted /\ ~Parseable) => parsing.fill.text = parsing.formula

C28_Witness ==
  /\ Adjusted
  /\ parsing.formula = <<"=", "S", "U", "M", "(", "A", "1", ":", ")">>
  /\ parseFormulaText(parsing.formula).error = "Expected CELL_REF, got RPAREN"
  /\ parsing.fill.deltaRow = 1
  /\ parsing.fill.deltaCol = 2
  /\ parsing.fill.text = parsing.formula

\* ------------------------------------------------------ undo and redo (host)
\* DEFAULT_COL_WIDTH
DEFAULT_COL_WIDTH == 100

\* Array(COLS).fill(DEFAULT_COL_WIDTH), over the three columns of the model
DefaultWidths == [c \in {0, 1, 2} |-> DEFAULT_COL_WIDTH]

\* HistoryEntry: a copy of the cells map and of the column widths
HistoryEntry(cs, widths) == [cells |-> cs, columnWidths |-> widths]

\* saveHistory: push the state of this render on the undo stack, empty the
\* redo stack
saveHistory(h, cs) ==
  [h EXCEPT !.undoStack = Append(@, HistoryEntry(cs, h.columnWidths)),
            !.redoStack = <<>>]

\* updateColumnWidth: saveHistory, then newWidths[col] = Math.max(50, width)
updateColumnWidth(h, cs, col, width) ==
  [saveHistory(h, cs) EXCEPT
     !.columnWidths = [h.columnWidths EXCEPT ![col] = Max(50, width)]]

\* a state of the host after undo or redo: the cells and the history
Restored(cs, h) == [cells |-> cs, history |-> h]

\* undo that forgets to push the state it leaves on the redo stack
undo_NoRedoPush(h, cs) ==
  IF Len(h.undoStack) = 0 THEN Restored(cs, h)
  ELSE Restored(h.undoStack[Len(h.undoStack)].cells,
                [h EXCEPT !.undoStack = SubSeq(@, 1, Len(@) - 1),
                          !.columnWidths = h.undoStack[Len(h.undoStack)].columnWidths])

\* undo: nothing on an empty undo stack; else pop the entry, push the current
\* state on the redo stack and set cells and columnWidths from the entry
undo(h, cs) ==
  IF Len(h.undoStack) = 0 THEN Restored(cs, h)
  ELSE Restored(h.undoStack[Len(h.undoStack)].cells,
                [h EXCEPT !.undoStack = SubSeq(@, 1, Len(@) - 1),
                          !.redoStack = Append(@, HistoryEntry(cs, h.columnWidths)),
                          !.columnWidths = h.undoStack[Len(h.undoStack)].columnWidths])

\* redo: nothing on an empty redo stack; else pop the entry, push the current
\* state on the undo stack and set cells and columnWidths from the entry
redo(h, cs) ==
  IF Len(h.redoStack) = 0 THEN Restored(cs, h)
  ELSE Restored(h.redoStack[Len(h.redoStack)].cells,
                [h EXCEPT !.redoStack = SubSeq(@, 1, Len(@) - 1),
                          !.undoStack = Append(@, HistoryEntry(cs, h.columnWidths)),
                          !.columnWidths = h.redoStack[Len(h.redoStack)].columnWidths])

\* the texts and the widths the history runs type in
HistoryInputs == {"", "1", "=A1+1"}

ResizedCols == {0, 1}

Widths == {40, 120}

\* The record of a run, kept beside the stacks: timeline lists the states the
\* sheet went through by mutations (the state before each mutation that is
\* not undone or can be redone, then the newest one), cursor points at the
\* state the sheet shows, calls lists the handlers called.
Mutated(h, cs) ==
  [h EXCEPT !.timeline = Append(SubSeq(@, 1, h.cursor), HistoryEntry(cs, h.columnWidths)),
            !.cursor = @ + 1]

StepBack(h) == [h EXCEPT !.cursor = IF @ > 1 THEN @ - 1 ELSE @]

StepForward(h) == [h EXCEPT !.cursor = IF @ < Len(h.timeline) THEN @ + 1 ELSE @]

Called(h, name) == [h EXCEPT !.calls = Append(@, name)]

HInit ==
  /\ nodes = EmptyMap
  /\ cells = EmptyMap
  /\ last = NoCall
  /\ edited = NoEdit
  /\ edits = 0
  /\ evaluation = NoEvaluation
  /\ parsing = NoParsing
  /\ storage = NoStorage
  /\ editing = NoEditing
  /\ history = [columnWidths |-> DefaultWidths,
                undoStack |-> <<>>,
                redoStack |-> <<>>,
                timeline |-> <<HistoryEntry(EmptyMap, DefaultWidths)>>,
                cursor |-> 1,
                calls |-> <<>>]

\* the state updateCell sets, with the history saveHistory left
HistoryAfterEdit(next, h) ==
  /\ SetState(next)
  /\ history' = Called(Mutated(h, next.cells), "updateCell")

HUpdateCell ==
  /\ edits < MaxHistory
  /\ edits' = edits + 1
  /\ \E addr \in Cells : \E raw \in HistoryInputs :
       /\ HistoryAfterEdit(HostUpdateCell(addr, raw, cells, nodes),
                           saveHistory(history, cells))
       /\ edited' = cellKey(addr)
  /\ last' = "updateCell"
  /\ UNCHANGED <<evaluation, parsing, storage, editing>>

HUpdateColumnWidth ==
  /\ edits < MaxHistory
  /\ edits' = edits + 1
  /\ \E col \in ResizedCols : \E width \in Widths :
       history' = Called(Mutated(updateColumnWidth(history, cells, col, width), cells),
                         "updateColumnWidth")
  /\ last' = "updateColumnWidth"
  /\ UNCHANGED <<nodes, cells, edited, evaluation, parsing, storage, editing>>

\* the state undo or redo sets
HistoryRestored(restored, name) ==
  /\ cells' = restored.cells
  /\ history' = Called(IF name = "undo" THEN StepBack(restored.history)
                       ELSE StepForward(restored.history), name)
  /\ last' = name

HUndo ==
  /\ edits < MaxHistory
  /\ edits' = edits + 1
  /\ HistoryRestored(undo(history, cells), "undo")
  /\ UNCHANGED <<nodes, edited, evaluation, parsing, storage, editing>>

HRedo ==
  /\ edits < MaxHistory
  /\ edits' = edits + 1
  /\ HistoryRestored(redo(history, cells), "redo")
  /\ UNCHANGED <<nodes, edited, evaluation, parsing, storage, editing>>

HNext == HUpdateCell \/ HUpdateColumnWidth \/ HUndo \/ HRedo

SpecHistory == HInit /\ [][HNext]_vars

\* ------------------------------------------------------------ claim C29
\* the state the sheet shows
Shown == HistoryEntry(cells, history.columnWidths)

RECURSIVE Reversed(_)
Reversed(s) == IF s = <<>> THEN <<>> ELSE Append(Reversed(Tail(s)), Head(s))

Timer(id, state) == [id |-> id, state |-> state]

\* saveTimeoutRef.current before the first saveState
NoTimeout == 0

\* clearTimeout that clears nothing
clearTimeout_Nothing(timers, id) == timers

\* if (saveTimeoutRef.current) clearTimeout(saveTimeoutRef.current): a timer
\* that has fired or was cleared is no longer there, and clearing it does
\* nothing
clearTimeout(timers, id) == { t \in timers : t.id # id }

\* saveState: clear the existing timeout, then set a new one whose callback
\* writes the state handed in
saveState(st, state) ==
  [st EXCEPT !.timers = clearTimeout(st.timers, st.saveTimeoutRef)
                          \cup {Timer(st.nextId, state)},
             !.saveTimeoutRef = st.nextId,
             !.nextId = @ + 1]

\* the cleanup of the effect: clear the timeout
Cleanup(st) == [st EXCEPT !.timers = clearTimeout(@, st.saveTimeoutRef)]

\* the effect on [state, saveState]: the cleanup of the previous run, then
\* saveState(state)
Effect(st) ==
  [saveState(IF st.rendered = 0 THEN st ELSE Cleanup(st), st.state)
     EXCEPT !.rendered = st.state]

\* the callback of a timer: localStorage.setItem of the captured state, or the
\* catch when it throws
TimerFired(st, t, thrown) ==
  [st EXCEPT !.timers = @ \ {t},
             !.written = IF thrown THEN @ ELSE Append(@, t.state),
             !.failed = IF thrown THEN @ \cup {t.state} ELSE @]

SInit ==
  /\ nodes = EmptyMap
  /\ cells = EmptyMap
  /\ last = NoCall
  /\ edited = NoEdit
  /\ edits = 0
  /\ evaluation = NoEvaluation
  /\ parsing = NoParsing
  /\ history = NoHistory
  /\ editing = NoEditing
  /\ storage = [mounted |-> TRUE,
                state |-> 1,
                rendered |-> 0,
                timers |-> {},
                saveTimeoutRef |-> NoTimeout,
                nextId |-> 1,
                written |-> <<>>,
                failed |-> {}]

\* a setState of the host: a new state object
SSetState ==
  /\ storage.mounted
  /\ storage.state <= MaxChanges
  /\ storage' = [storage EXCEPT !.state = @ + 1]
  /\ last' = "setState"
  /\ UNCHANGED <<nodes, cells, edited, edits, evaluation, parsing, history, editing>>

\* React runs the effect after the render of a state it has not run for
SEffect ==
  /\ storage.mounted
  /\ storage.rendered # storage.state
  /\ storage' = Effect(storage)
  /\ last' = "saveState"
  /\ UNCHANGED <<nodes, cells, edited, edits, evaluation, parsing, history, editing>>

\* SAVE_DEBOUNCE_MS after setTimeout the callback of a pending timer runs
STimeout ==
  /\ \E t \in storage.timers : \E thrown \in BOOLEAN :
       storage' = TimerFired(storage, t, thrown)
  /\ last' = "setItem"
  /\ UNCHANGED <<nodes, cells, edited, edits, evaluation, parsing, history, editing>>

\* the component unmounts: the cleanup of the effect runs
SUnmount ==
  /\ storage.mounted
  /\ storage.rendered # 0
  /\ storage' = [Cleanup(storage) EXCEPT !.mounted = FALSE]
  /\ last' = "unmount"
  /\ UNCHANGED <<nodes, cells, edited, edits, evaluation, parsing, history, editing>>

SNext == SSetState \/ SEffect \/ STimeout \/ SUnmount

SpecStorage == SInit /\ [][SNext]_vars

\* React runs every effect it scheduled and the browser every timer it holds
SpecStorageFair == SpecStorage /\ WF_vars(SEffect) /\ WF_vars(STimeout)

\* ------------------------------------------------------------ claim C30
Versions == 1 .. (MaxChanges + 1)

\* the item of localStorage holds state v
Written(v) ==
  /\ Len(storage.written) > 0
  /\ storage.written[Len(storage.written)] = v

\* v is the state of the mounted component
Latest(v) == storage.mounted /\ storage.state = v

AtMostOneSavePending == Cardinality(storage.timers) <= 1

\* the states written, in the order of the writes, never go back
NeverOlderAfterNewer ==
  \A i \in 1 .. Len(storage.written) : \A j \in 1 .. Len(storage.written) :
    i < j => storage.written[i] <= storage.written[j]

Editing(addr, draft) == [addr |-> addr, draft |-> draft]

\* what a handler reads and sets: state.cells, the graph of
\* dependencyGraphRef, the stacks with columnWidths, and state.editing. The
\* handlers of one event are the closures of one render; what they read of the
\* state is the state of that render, what they set with an updater function
\* is applied to what the handlers before them in the event have set.
EditorState(cs, g, h, ed) == [cells |-> cs, nodes |-> g, history |-> h, editing |-> ed]

\* cell?.raw || ''
RawOf(cs, key) == IF key \in DOMAIN cs THEN cs[key].raw ELSE ""

\* startEditing(addr)
startEditing(render, cur, addr) ==
  [cur EXCEPT !.editing = Editing(addr, RawOf(render.cells, cellKey(addr)))]

\* updateDraft(draft): editing: prev.editing ? { ...prev.editing, draft } : undefined
updateDraft(cur, draft) ==
  IF cur.editing = NoEditing THEN cur
  ELSE [cur EXCEPT !.editing = Editing(cur.editing.addr, draft)]

\* updateCell(addr, raw) called by a handler of the render: saveHistory pushes
\* the cells of the render, processCell and recalculateDependents read the
\* cells of the render and update the graph in place, setState sets the cells
updateCellOf(render, cur, addr, raw) ==
  EditorState(HostUpdateCell(addr, raw, render.cells, cur.nodes).cells,
              HostUpdateCell(addr, raw, render.cells, cur.nodes).nodes,
              saveHistory(cur.history, render.cells),
              cur.editing)

\* setState(prev => ({ ...prev, editing: undefined }))
EndEditing(cur) == [cur EXCEPT !.editing = NoEditing]

\* stopEditing that commits whatever it is told
stopEditing_AlwaysCommits(render, cur, commit) ==
  IF render.editing = NoEditing THEN cur
  ELSE EndEditing(updateCellOf(render, cur, render.editing.addr, render.editing.draft))

\* stopEditing(commit)
stopEditing(render, cur, commit) ==
  IF render.editing = NoEditing THEN cur
  ELSE IF commit
       THEN EndEditing(updateCellOf(render, cur, render.editing.addr, render.editing.draft))
       ELSE EndEditing(cur)

\* GridCell.handleKeyDown, the key handler of the input of the cell editor
GridCellKeyDown(render, cur, key) ==
  CASE key = "Enter"  -> stopEditing(render, cur, TRUE)
    [] key = "Escape" -> stopEditing(render, cur, FALSE)
    [] OTHER          -> cur

\* Grid.handleKeyDown, the key handler of the grid, which the key event of the
\* input bubbles to: its editing branch (the selection is not modelled)
GridKeyDown(render, cur, key) ==
  IF render.editing = NoEditing THEN cur
  ELSE CASE key = "Enter"  -> stopEditing(render, cur, TRUE)
         [] key = "Escape" -> stopEditing(render, cur, FALSE)
         [] key = "Tab"    -> stopEditing(render, cur, TRUE)
         [] OTHER          -> cur

\* a key pressed in the input of the cell editor: the handler of the input,
\* then the handler of the grid
CellEditorKey(render, key) ==
  GridKeyDown(render, GridCellKeyDown(render, render, key), key)

\* the drafts and the keys of the editing runs
Drafts == {"", "1", "=A1+1", "=B1+1"}

EditorKeys == {"Enter", "Escape", "Tab"}

\* the state of the render
Rendered == EditorState(cells, nodes, history, editing)

\* React applies what the handlers of the event have set
Commit(next, name) ==
  /\ cells' = next.cells
  /\ nodes' = next.nodes
  /\ history' = next.history
  /\ editing' = next.editing
  /\ last' = name
  /\ edits' = edits + 1
  /\ UNCHANGED <<evaluation, parsing, storage>>

DInit ==
  /\ nodes = EmptyMap
  /\ cells = EmptyMap
  /\ last = NoCall
  /\ edited = NoEdit
  /\ edits = 0
  /\ evaluation = NoEvaluation
  /\ parsing = NoParsing
  /\ storage = NoStorage
  /\ editing = NoEditing
  /\ history = [columnWidths |-> DefaultWidths, undoStack |-> <<>>, redoStack |-> <<>>]

\* a double click on a cell, or Enter on the focused cell
DStartEditing ==
  /\ edits < MaxEvents
  /\ editing = NoEditing
  /\ \E addr \in Cells : Commit(startEditing(Rendered, Rendered, addr), "startEditing")
  /\ UNCHANGED edited

\* the input of the cell editor changes
DUpdateDraft ==
  /\ edits < MaxEvents
  /\ editing # NoEditing
  /\ \E draft \in Drafts : Commit(updateDraft(Rendered, draft), "updateDraft")
  /\ UNCHANGED edited

\* a key pressed in the input of the cell editor; edited keeps the edit the
\* event found
DKeyDown ==
  /\ edits < MaxEvents
  /\ editing # NoEditing
  /\ \E key \in EditorKeys : Commit(CellEditorKey(Rendered, key), key)
  /\ edited' = editing

\* the input of the cell editor loses the focus: onBlur
DBlur ==
  /\ edits < MaxEvents
  /\ editing # NoEditing
  /\ Commit(stopEditing(Rendered, Rendered, TRUE), "blur")
  /\ edited' = editing

\* stopEditing called while no edit is in progress
DStopEditing ==
  /\ edits < MaxEvents
  /\ editing = NoEditing
  /\ \E commit \in BOOLEAN : Commit(stopEditing(Rendered, Rendered, commit), "stopEditing")
  /\ edited' = editing

\* Ctrl+Z
DUndo ==
  /\ edits < MaxEvents
  /\ editing = NoEditing
  /\ Commit(EditorState(undo(history, cells).cells, nodes,
                        undo(history, cells).history, editing), "undo")
  /\ UNCHANGED edited

DNext == DStartEditing \/ DUpdateDraft \/ DKeyDown \/ DBlur \/ DStopEditing \/ DUndo

SpecEditor == DInit /\ [][DNext]_vars

\* ------------------------------------------------------------ claim C31
\* C31: cancelling an edit (the Escape key in the cell editor, which calls
\* stopEditing(false)) ends the editing state and leaves the cells, the
\* dependency graph and the undo and redo stacks unchanged, whatever the draft
\* contains; stopEditing when no edit is in progress changes nothing.
C31_CancelKeepsSheet ==
  [][ /\ last' = "Escape" =>
           /\ editing' = NoEditing
           /\ UNCHANGED <<cells, nodes, history>>
      /\ last' = "stopEditing" =>
           UNCHANGED <<cells, nodes, history, editing>> ]_vars

\* an edit of a cell that holds 1, with a formula as its draft, was cancelled
C31_Witness ==
  /\ last = "Escape"
  /\ editing = NoEditing
  /\ edited # NoEdit
  /\ edited.draft = "=B1+1"
  /\ cellKey(edited.addr) \in DOMAIN cells
  /\ cells[cellKey(edited.addr)].raw = "1"
  /\ Len(history.undoStack) = 1

\* ------------------------------------------------------------ claim C37
\* the step is Enter in the cell editor
EnterStep == last' = "Enter"

\* the draft is applied once: the cells and the graph are those of one
\* updateCell(addr, draft)
AppliedOnce ==
  /\ cells' = HostUpdateCell(editing.addr, editing.draft, cells, nodes).cells
  /\ nodes' = HostUpdateCell(editing.addr, editing.draft, cells, nodes).nodes

\* one undo entry is pushed: the snapshot of the cells before the edit
OneUndoEntry ==
  history'.undoStack = Append(history.undoStack, HistoryEntry(cells, history.columnWidths))

\* a single undo reverts the edit: the cells and the undo stack are what they
\* were before it
SingleUndoReverts ==
  /\ undo(history', cells').cells = cells
  /\ undo(history', cells').history.undoStack = history.undoStack

\* C37: committing one edit with Enter in the cell editor applies the draft
\* exactly once and pushes exactly one undo entry, so a single undo reverts
\* it, although the key event reaches the handler of the input and the
\* handler of the grid.
C37_CommitOnce ==
  [][EnterStep => (AppliedOnce /\ OneUndoEntry /\ SingleUndoReverts)]_vars

\* ------------------------------------------------- a1.ts: keys and A1 texts
\* cellKey as the text it is: `r${addr.row}c${addr.col}`
cellKeyText(addr) == <<"r">> \o IntegerChars(addr.row) \o <<"c">> \o IntegerChars(addr.col)

\* keyToAddress once /^r(\d+)c(\d+)$/ has matched, the row digits ending at
\* rowEnd
KeyAddressOf(key, rowEnd) ==
  [row |-> DigitsValue(Substring(key, 1, rowEnd), 0),
   col |-> DigitsValue(Substring(key, rowEnd + 1, Len(key)), 0)]

\* the match of /^r(\d+)c(\d+)$/ from the end of the first run of digits on
KeyMatches(key, rowEnd) ==
  /\ CharAt(key, 0) = "r"
  /\ rowEnd > 1
  /\ CharAt(key, rowEnd) = "c"
  /\ RunEnd(key, rowEnd + 1, Digits) > rowEnd + 1
  /\ RunEnd(key, rowEnd + 1, Digits) = Len(key)

\* keyToAddress
keyToAddress(key) ==
  IF KeyMatches(key, RunEnd(key, 1, Digits)) THEN KeyAddressOf(key, RunEnd(key, 1, Digits))
  ELSE NullAddress

\* addressToA1 as the text it is
addressToA1(addr) == colToLetter(addr.col) \o IntegerChars(addr.row + 1)

\* a1ToAddress once /^([A-Z]+)(\d+)$/i has matched, the letters ending at
\* colEnd
A1AddressOf(a1, colEnd) ==
  IF DigitsValue(Substring(a1, colEnd, Len(a1)), 0) - 1 < 0
       \/ letterToCol(Substring(a1, 0, colEnd)) < 0
  THEN NullAddress
  ELSE [row |-> DigitsValue(Substring(a1, colEnd, Len(a1)), 0) - 1,
        col |-> letterToCol(Substring(a1, 0, colEnd))]

\* a1ToAddress on the text of a reference
a1TextToAddress(a1) ==
  IF /\ RunEnd(a1, 0, LetterChars) > 0
     /\ RunEnd(a1, RunEnd(a1, 0, LetterChars), Digits) > RunEnd(a1, 0, LetterChars)
     /\ RunEnd(a1, RunEnd(a1, 0, LetterChars), Digits) = Len(a1)
  THEN A1AddressOf(a1, RunEnd(a1, 0, LetterChars))
  ELSE NullAddress

\* the addresses the functions are run on: every row up to MaxRow, the
\* columns A to BB and those around ZZ and AAA
CodecCols == (0 .. MaxCol) \cup (674 .. 677) \cup (700 .. 704)

CodecAddresses == { [row |-> r, col |-> c] : r \in 0 .. MaxRow, c \in CodecCols }

CodecRef(addr, absCol, absRow) ==
  [col |-> addr.col, row |-> addr.row, absCol |-> absCol, absRow |-> absRow]

NoCodes == [key |-> <<>>, a1 |-> <<>>, letters |-> <<>>, ref |-> <<>>]

NoDecoded == [key |-> NullAddress, a1 |-> NullAddress, col |-> -1, ref |-> NullRef]

\* parsing holds the reference under study, the texts made of it and what
\* the parsing functions made of the texts
AInit ==
  /\ nodes = EmptyMap
  /\ cells = EmptyMap
  /\ last = NoCall
  /\ edited = NoEdit
  /\ edits = 0
  /\ evaluation = NoEvaluation
  /\ history = NoHistory
  /\ storage = NoStorage
  /\ editing = NoEditing
  /\ parsing \in { [ref |-> CodecRef(addr, absCol, absRow), codes |-> NoCodes,
                    decoded |-> NoDecoded] :
                   addr \in CodecAddresses, absCol \in BOOLEAN, absRow \in BOOLEAN }

\* the address of the reference under study
CodecAddress == [row |-> parsing.ref.row, col |-> parsing.ref.col]

\* cellKey, addressToA1, colToLetter and cellRefToA1 are called
AEncode ==
  /\ last = NoCall
  /\ parsing' = [parsing EXCEPT !.codes = [key |-> cellKeyText(CodecAddress),
                                           a1 |-> addressToA1(CodecAddress),
                                           letters |-> colToLetter(parsing.ref.col),
                                           ref |-> cellRefToA1(parsing.ref)]]
  /\ last' = "encode"
  /\ UNCHANGED <<nodes, cells, edited, edits, evaluation, history, storage, editing>>

\* keyToAddress, a1ToAddress, letterToCol and parseCellRef are called on the
\* texts
ADecode ==
  /\ last = "encode"
  /\ parsing' = [parsing EXCEPT !.decoded = [key |-> keyToAddress(parsing.codes.key),
                                             a1 |-> a1TextToAddress(parsing.codes.a1),
                                             col |-> letterToCol(parsing.codes.letters),
                                             ref |-> parseCellRef(parsing.codes.ref)]]
  /\ last' = "decode"
  /\ UNCHANGED <<nodes, cells, edited, edits, evaluation, history, storage, editing>>

ANext == AEncode \/ ADecode

SpecA1 == AInit /\ [][ANext]_vars

\* ------------------------------------------------------------ claim C32
\* C32: for every address a with non-negative row and column,
\* keyToAddress(cellKey(a)) = a and a1ToAddress(addressToA1(a)) = a,
\* letterToCol(colToLetter(c)) = c for every column c, and
\* parseCellRef(cellRefToA1(r)) = r for every reference r with any combination
\* of absolute markers.
C32_RoundTrips ==
  last = "decode" =>
    /\ parsing.decoded.key = CodecAddress
    /\ parsing.decoded.a1 = CodecAddress
    /\ parsing.decoded.col = parsing.ref.col
    /\ parsing.decoded.ref = parsing.ref

\* the reference $AAA100: three letters and three digits
C32_Witness ==
  /\ last = "decode"
  /\ parsing.ref = [col |-> 702, row |-> 99, absCol |-> TRUE, absRow |-> FALSE]
  /\ parsing.codes.ref = <<"$", "A", "A", "A", "1", "0", "0">>
  /\ parsing.codes.key = <<"r", "9", "9", "c", "7", "0", "2">>
  /\ parsing.codes.a1 = <<"A", "A", "A", "1", "0", "0">>
  /\ parsing.decoded.ref = parsing.ref

\* ------------------------------------------------------------ claim C33
\* the reference texts an AST names
RECURSIVE AstReferences(_)
AstReferences(node) ==
  CASE node.type = "CellRef"  -> {node.cellRef}
    [] node.type = "BinaryOp" -> AstReferences(node.left) \cup AstReferences(node.right)
    [] OTHER                  -> {}

\* the keys of the cells the content of cell k references: those of its
\* formula when it holds one that parses, none otherwise
ContentReferences(k) ==
  IF k \in DOMAIN cells /\ cells[k].raw \in FormulaTexts /\ parseFormula(cells[k].raw).ok
  THEN { cellKey(a1ToAddress(ref)) : ref \in AstReferences(parseFormula(cells[k].raw).ast) }
  ELSE {}

\* C33: after every committed edit, for every cell K the graph's dependency set
\* of K equals the set of cells that K's current content references; it is
\* empty when K holds a number, a text or a formula that fails to parse.
C33_EdgesFollowContent ==
  \A k \in Keys : DependenciesOf(nodes, k) = ContentReferences(k)

\* ------------------------------------------- load and import (host), claim C34
\* the sheets a file or localStorage may hold: what an earlier session saved,
\* here the empty sheet and the sheet with A1 = 1 and B1 = =A1+1. JSON keeps
\* the fields of these cells as they are.
SavedCells ==
  HostUpdateCell([row |-> 0, col |-> 1], "=A1+1",
                 HostUpdateCell([row |-> 0, col |-> 0], "1", EmptyMap, EmptyMap).cells,
                 HostUpdateCell([row |-> 0, col |-> 0], "1", EmptyMap, EmptyMap).nodes).cells

SavedSheets == { HistoryEntry(EmptyMap, DefaultWidths), HistoryEntry(SavedCells, DefaultWidths) }

\* the load effect on mount: setState with the cells and widths of the stored
\* sheet; the graph and the stacks are not touched
RLoad ==
  /\ last = NoCall
  /\ edits < MaxHistory
  /\ edits' = edits + 1
  /\ \E sheet \in SavedSheets :
       /\ cells' = sheet.cells
       /\ history' = Called([history EXCEPT !.columnWidths = sheet.columnWidths,
                                            !.timeline = <<sheet>>], "load")
  /\ last' = "load"
  /\ UNCHANGED <<nodes, edited, evaluation, parsing, storage, editing>>

\* handleImport once importState has returned a sheet: saveHistory, then
\* setState(imported); the graph is not touched
RImport ==
  /\ edits < MaxHistory
  /\ edits' = edits + 1
  /\ \E sheet \in SavedSheets :
       /\ cells' = sheet.cells
       /\ history' = Called(Mutated([saveHistory(history, cells)
                                       EXCEPT !.columnWidths = sheet.columnWidths],
                                    sheet.cells), "import")
  /\ last' = "import"
  /\ UNCHANGED <<nodes, edited, evaluation, parsing, storage, editing>>

RNext == RLoad \/ RImport \/ HUpdateCell \/ HUndo \/ HRedo

SpecRestore == HInit /\ [][RNext]_vars

\* C34: after undo, redo, import of a sheet or the initial load from storage,
\* the dependency graph's edges correspond to the formulas of the cells now in
\* the sheet: the dependency set of every cell is the set of references of its
\* formula, so the next edit recalculates the formulas that reference the
\* edited cell and cycle checks see no edge of a formula that is gone.
C34_GraphFollowsRestoredCells ==
  last \in {"undo", "redo", "import", "load"} =>
    \A k \in Keys : DependenciesOf(nodes, k) = ContentReferences(k)

\* ------------------------------ recalculateDependents: from the key to the address
\* the characters with the codes 91 to 96; "grave" stands for the grave
\* accent, code 96
AfterLetters == <<"[", "\\", "]", "^", "_", "grave">>

\* String.fromCharCode(code) for the codes 65 to 122
fromCharCode(code) ==
  IF code <= 90 THEN Letters[code - 64]
  ELSE IF code <= 96 THEN AfterLetters[code - 90]
  ELSE LowerLetters[code - 96]

\* key.replace(/^r(\d+)c(\d+)$/, (_, r, c) => String.fromCharCode(65 +
\* parseInt(c, 10)) + (parseInt(r, 10) + 1)): the key itself when the
\* expression does not match
KeyReplaced(key) ==
  IF KeyMatches(key, RunEnd(key, 1, Digits))
  THEN <<fromCharCode(65 + keyToAddress(key).col)>> \o IntegerChars(keyToAddress(key).row + 1)
  ELSE key

\* the address recalculateDependents hands to processCell for a key of
\* recalcKeys, or null
RecalcAddress(key) == a1TextToAddress(KeyReplaced(key))

\* the body of the for loop for a key whose cell has raw content: continue when
\* the address is null, else processCell(cell.raw, addr) and
\* updatedCells.set(key, newCell)
RecalcStep(key) ==
  [a1 |-> KeyReplaced(key),
   addr |-> RecalcAddress(key),
   reprocessed |-> RecalcAddress(key) # NullAddress]

\* the cells of the grid recalculateDependents is run on
GridAddresses == { [row |-> r, col |-> c] : r \in 0 .. MaxRecalcRow, c \in 0 .. (COLS - 1) }

\* parsing holds the address of a dependent with raw content, its key in
\* recalcKeys and what the loop made of the key
CInit ==
  /\ nodes = EmptyMap
  /\ cells = EmptyMap
  /\ last = NoCall
  /\ edited = NoEdit
  /\ edits = 0
  /\ evaluation = NoEvaluation
  /\ history = NoHistory
  /\ storage = NoStorage
  /\ editing = NoEditing
  /\ parsing \in { [address |-> addr, key |-> cellKeyText(addr),
                    step |-> [a1 |-> <<>>, addr |-> NullAddress, reprocessed |-> FALSE]] :
                   addr \in GridAddresses }

CRecalculate ==
  /\ last = NoCall
  /\ parsing' = [parsing EXCEPT !.step = RecalcStep(parsing.key)]
  /\ last' = "recalculateDependents"
  /\ UNCHANGED <<nodes, cells, edited, edits, evaluation, history, storage, editing>>

CNext == CRecalculate

SpecRecalc == CInit /\ [][CNext]_vars

\* ------------------------------------------------------------ claim C35
\* C35: recalculateDependents reprocesses every key of the recalculation order
\* whose cell has raw content, for every column of the 50-column grid: a
\* dependent in a column with index 26 to 49 is reprocessed, at its own
\* address, like one in columns A to Z.
C35_EveryColumnReprocessed ==
  last = "recalculateDependents" =>
    /\ parsing.step.reprocessed
    /\ parsing.step.addr = parsing.address

\* ------------------------------------------------------------ claim C36
\* the texts of the cell references and range endpoints of a formula text, in
\* the order they are written: its CELL_REF tokens
RECURSIVE CellRefTokens(_)
CellRefTokens(tokens) ==
  IF tokens = <<>> THEN <<>>
  ELSE (IF Head(tokens).type = "CELL_REF" THEN <<Head(tokens).value>> ELSE <<>>)
         \o CellRefTokens(Tail(tokens))

ReferencesOf(formula) == CellRefTokens(tokenize(cleanFormula(formula)).tokens)

\* a reference text that denotes an address with row >= 0 and column >= 0
DenotesAddress(ref) == parseCellRef(ref) # NullRef

\* C36: for every parseable formula and every pair of deltas, negative ones
\* included, every cell reference and range endpoint of the input is still a
\* cell reference in the output of adjustFormulaForFill and denotes an address
\* with row >= 0 and column >= 0: the output has as many references as the
\* input, and where the input's denotes an address the output's does.
C36_ReferencesStayOnSheet ==
  (Adjusted /\ Parseable) =>
    /\ Len(ReferencesOf(parsing.fill.text)) = Len(ReferencesOf(parsing.formula))
    /\ \A i \in 1 .. Len(ReferencesOf(parsing.formula)) :
         DenotesAddress(ReferencesOf(parsing.formula)[i]) =>
           DenotesAddress(ReferencesOf(parsing.fill.text)[i])

\* ------------------------------------------------------------ claim C38
\* the arguments with every single reference X written as the range X:X
AsRanges(args) ==
  [i \in 1 .. Len(args) |->
     IF args[i].type = "CellRef" THEN RangeRefNode(args[i].cellRef, args[i].cellRef)
     ELSE args[i]]

\* the call under study is an aggregate with a single reference among its
\* arguments
AggregateOfReference ==
  /\ Evaluated
  /\ evaluation.ast.type = "FunctionCall"
  /\ evaluation.ast.name \in FunctionNames
  /\ \E i \in 1 .. Len(evaluation.ast.args) : evaluation.ast.args[i].type = "CellRef"

\* two results show the same outcome
SameOutcome(r1, r2) == r1.value = r2.value /\ r1.text = r2.text /\ r1.error = r2.error

\* C38: for every aggregate function and every cell X, passing the single
\* reference X as an argument gives the same result as passing the one-cell
\* range X:X, also when X is empty.
C38_ReferenceAsRange ==
  AggregateOfReference =>
    SameOutcome(evaluation.result,
                evaluateFormula(FunctionCallNode(evaluation.ast.name,
                                                 AsRanges(evaluation.ast.args)),
                                evaluation.get))
====
